---- MODULE Spec2Model ----
(***************************************************************************)
(* A model of the xai-grpc-client library: the ChatRequest builder, the    *)
(* wire adapter (conversions.rs), the response assembler and the client    *)
(* operations of operations.rs, the deferred-completion poller among them. *)
(*                                                                         *)
(* Rust values are records: Option<T> is None / Some(v), Result<T> is      *)
(* Ok(v) / Err(e), an enum value carries its variant in a tag field.  f32  *)
(* values are fixed-point tenths (7 is 0.7, 20 is 2.0) or NaN.             *)
(***************************************************************************)
EXTENDS Integers, Sequences, FiniteSets, TLC

VARIABLES
    \* ---- one client operation (operations.rs) ----
    op,             \* the public operation called ("none" before the call)
    pc,             \* where the operation's task stands
    request_id,     \* wait_for_deferred / poll_deferred argument
    poll_interval,  \* wait_for_deferred argument
    timeout,        \* wait_for_deferred argument
    now,            \* the monotonic clock (tokio::time::Instant)
    start,          \* wait_for_deferred: `let start = Instant::now()`
    wake_at,        \* the earliest instant the pending sleep may complete
    calls,          \* the remote calls issued so far, in order
    replies,        \* the replies received so far, in order
    checks,         \* wait_for_deferred: the elapsed time read at each loop top
    sleeps,         \* wait_for_deferred: the sleeps begun so far
    result,         \* what the operation returned (NoResult until it returns)
    stream,         \* stream_chat: the items the remote stream produced so far
    yielded,        \* stream_chat: the items handed to the consumer so far
    \* ---- one conversion of a wire value (conversions.rs) ----
    conv_fn,        \* the conversion applied ("none" before)
    conv_in,        \* the wire value it was applied to
    conv_out,       \* what it returned
    \* ---- one ChatRequest under construction (request.rs) ----
    req,            \* the ChatRequest value (NoRequest before a constructor ran)
    built,          \* the builder calls made so far, constructor included
    panicked,       \* whether a builder call panicked
    wire            \* the wire request made of it by to_proto_request (None before)

opVars   == <<op, pc, request_id, poll_interval, timeout, now, start, wake_at,
              calls, replies, checks, sleeps, result, stream, yielded>>
convVars == <<conv_fn, conv_in, conv_out>>
reqVars  == <<req, built, panicked, wire>>
vars     == <<opVars, convVars, reqVars>>

----------------------------------------------------------------------------
(* Bounds of the model.                                                    *)

MaxTimeout   == 3   \* timeouts are 0..MaxTimeout clock units
MaxInterval  == 2   \* poll intervals are 1..MaxInterval clock units
MaxLatency   == 1   \* a remote call takes 0..MaxLatency clock units
MaxJitter    == 1   \* a sleep overshoots its duration by 0..MaxJitter units
MaxStatus    == 4   \* wire status integers are -1..MaxStatus
MaxCode      == 7   \* wire finish-reason codes include -1..MaxCode
MaxMagnitude == 25  \* f32 inputs reach from -MaxMagnitude to MaxMagnitude tenths
MaxBuilt     == 2   \* builder calls per request, constructor included
MaxChunks    == 3   \* items of one response stream
MaxToolType  == 8   \* wire tool-call types considered are -1..MaxToolType
WordBits     == 16  \* the bits of the model's i32 and u32 (TLC's integers have 32)

----------------------------------------------------------------------------
(* Option, Result, and integer casts.                                      *)

None == [some |-> FALSE]
Some(v) == [some |-> TRUE, val |-> v]
Ok(v) == [ok |-> TRUE, val |-> v]
Err(e) == [ok |-> FALSE, err |-> e]

OptionOf(S) == {None} \cup {Some(v) : v \in S}

\* i32::MIN, i32::MAX and u32::MAX at the model's width
I32Min == -(2^(WordBits - 1))
I32Max == 2^(WordBits - 1) - 1
U32Max == 2^WordBits - 1

\* `x as u32` for an i32 x: the value modulo 2^width
as_u32(x) == x % (2^WordBits)

\* the bits of the model's usize: wider than u32, as on a 64-bit target
UsizeBits == WordBits + 8

\* `x as usize` for an i32 x: the sign is extended to the width of usize, so
\* a negative x gives a value above u32::MAX
as_usize(x) == IF x < 0 THEN x + 2^UsizeBits ELSE x

\* a cast that saturates at i32::MAX: a mutant of as_i32
as_i32_saturating(x) == IF x > I32Max THEN I32Max ELSE x

\* `x as i32` for a u32 x: the value modulo 2^width, read as two's complement
as_i32(x) ==
    IF x % (2^WordBits) >= 2^(WordBits - 1)
    THEN (x % (2^WordBits)) - 2^WordBits
    ELSE x % (2^WordBits)

\* iter().map(F).collect()
RECURSIVE MapSeq(_, _)
MapSeq(F(_), s) == IF s = <<>> THEN <<>> ELSE <<F(Head(s))>> \o MapSeq(F, Tail(s))

----------------------------------------------------------------------------
(* GrokError (error.rs).                                                   *)

\* a local failure reported as a transport error: a mutant of InvalidRequest
InvalidRequest_as_transport(msg) == [kind |-> "Transport", msg |-> msg]

InvalidRequest(msg) == [kind |-> "InvalidRequest", msg |-> msg]
\* GrokError::Status, made from a tonic::Status by `?` (#[from])
StatusError(code) == [kind |-> "Status", code |-> code]

\* is_retryable without the ResourceExhausted code: a mutant of is_retryable
is_retryable_no_exhausted(error) ==
    CASE error.kind = "Transport" -> TRUE
      [] error.kind = "RateLimit" -> TRUE
      [] error.kind = "Status" -> error.code \in {"Unavailable", "DeadlineExceeded"}
      [] OTHER -> FALSE

\* GrokError::is_retryable
is_retryable(error) ==
    CASE error.kind = "Transport" -> TRUE
      [] error.kind = "RateLimit" -> TRUE
      [] error.kind = "Status" ->
            error.code \in {"Unavailable", "DeadlineExceeded", "ResourceExhausted"}
      [] OTHER -> FALSE

\* GrokError::retry_after
retry_after(error) ==
    CASE error.kind = "RateLimit" -> Some(error.retry_after_secs)
      [] OTHER -> None

\* tonic status codes a remote call may fail with
StatusCodes == {"Unavailable", "NotFound"}

----------------------------------------------------------------------------
(* f32 values: a number of tenths, or NaN.                                 *)

Num(v) == [nan |-> FALSE, v |-> v]
NaN == [nan |-> TRUE]

f32_lt(a, b) == ~a.nan /\ ~b.nan /\ a.v < b.v
f32_gt(a, b) == ~a.nan /\ ~b.nan /\ a.v > b.v

\* f32::clamp(self, min, max): NaN stays NaN
f32_clamp(x, min, max) ==
    IF f32_lt(x, min) THEN min ELSE IF f32_gt(x, max) THEN max ELSE x

\* x is a number within [lo, hi]
f32_within(x, lo, hi) == ~x.nan /\ lo.v <= x.v /\ x.v <= hi.v

TemperatureMin == 0
TemperatureMax == 20
TopPMin == 0
TopPMax == 10

\* the f32 values callers pass
F32Inputs ==
    {Num(v) : v \in {-MaxMagnitude, -1, 0, 7, 10, 11, 20, 21, MaxMagnitude}}
        \cup {NaN}

----------------------------------------------------------------------------
(* Messages, tools and the ChatRequest builder (request.rs, tools.rs).     *)

TextPart(text) == [kind |-> "Text", text |-> text]
ImageUrlPart(url, detail) == [kind |-> "ImageUrl", url |-> url, detail |-> detail]
FilePart(file_id) == [kind |-> "File", file_id |-> file_id]

TextContent(text) == [kind |-> "Text", text |-> text]
MultiModal(parts) == [kind |-> "MultiModal", parts |-> parts]

SystemMsg(text) == [role |-> "System", text |-> text]
UserMsg(content) == [role |-> "User", content |-> content]
AssistantMsg(text) == [role |-> "Assistant", text |-> text]
ToolMsg(id, content) == [role |-> "Tool", tool_call_id |-> id, content |-> content]

ImageDetails == {"Auto", "Low", "High"}

\* the multimodal part lists callers pass
PartLists ==
    { <<TextPart("describe"), ImageUrlPart("http://img", None), FilePart("file-1")>>,
      <<FilePart("file-1"), ImageUrlPart("http://img", Some("High")), TextPart("describe")>>,
      <<>> }

\* the message lists callers pass to from_messages / from_messages_with_options
MessageLists ==
    { <<>>,
      <<SystemMsg("be brief"), UserMsg(TextContent("hello"))>>,
      <<UserMsg(MultiModal(<<TextPart("describe"), ImageUrlPart("http://img", Some("Low"))>>)),
        AssistantMsg("a cat"), ToolMsg("call_1", "{}")>> }

FunctionTool(name) ==
    [variant |-> "Function", name |-> name, description |-> "d", parameters |-> "{}"]
ServerTool(variant) == [variant |-> variant]

\* the tools callers pass
Tools ==
    {FunctionTool("get_weather")}
        \cup {ServerTool(variant) : variant \in {"WebSearch", "XSearch", "CodeExecution",
                                                 "CollectionsSearch", "Mcp",
                                                 "DocumentSearch"}}

\* the tool lists callers pass to with_tools
ToolLists == { <<>>, <<FunctionTool("get_weather"), ServerTool("WebSearch")>> }

ToolChoices == {[tag |-> "Auto"], [tag |-> "Required"], [tag |-> "Function", name |-> "get_weather"]}

ReasoningEfforts == {"Low", "Medium", "High"}

ResponseFormats ==
    {[tag |-> "Text"], [tag |-> "JsonObject"], [tag |-> "JsonSchema", schema |-> "{}"]}

\* SearchConfig::web(), also what with_web_search stores
SearchConfig_web == [mode |-> "Auto", sources |-> <<"Web">>, max_results |-> Some(5)]

\* #[derive(Default)] ChatRequest; ChatRequest::new
ChatRequest_default ==
    [ messages |-> <<>>, model |-> None, max_tokens |-> None, temperature |-> None,
      top_p |-> None, stop |-> <<>>, reasoning_effort |-> None, search |-> None,
      seed |-> None, response_format |-> None, tools |-> None, tool_choice |-> None,
      user |-> None, logprobs |-> FALSE, top_logprobs |-> None,
      frequency_penalty |-> None, presence_penalty |-> None,
      parallel_tool_calls |-> None, previous_response_id |-> None,
      store_messages |-> FALSE, use_encrypted_content |-> FALSE,
      max_turns |-> None, include |-> <<>> ]

\* #[derive(Default)] CompletionOptions; CompletionOptions::new
CompletionOptions_default ==
    [ model |-> None, temperature |-> None, max_tokens |-> None, top_p |-> None,
      frequency_penalty |-> None, presence_penalty |-> None, stop_sequences |-> <<>>,
      tools |-> None, tool_choice |-> None, response_format |-> None ]

\* CompletionOptions::with_model / with_temperature / with_max_tokens
CompletionOptions_with_model(o, model) == [o EXCEPT !.model = Some(model)]
CompletionOptions_with_temperature(o, temp) == [o EXCEPT !.temperature = Some(temp)]
CompletionOptions_with_max_tokens(o, tokens) == [o EXCEPT !.max_tokens = Some(tokens)]

\* the CompletionOptions callers pass: built with the three setters, or with
\* the public fields written directly
CompletionOptionsInputs ==
    {CompletionOptions_default}
    \cup {CompletionOptions_with_temperature(CompletionOptions_default, t) :
              t \in {Num(7), Num(-1), Num(MaxMagnitude), NaN}}
    \cup {[CompletionOptions_default EXCEPT !.top_p = Some(p)] :
              p \in {Num(9), Num(11), NaN}}
    \cup {CompletionOptions_with_max_tokens(
              CompletionOptions_with_model(CompletionOptions_default, "grok-2"), 200)}
    \cup {[CompletionOptions_default EXCEPT
              !.frequency_penalty = Some(Num(5)), !.presence_penalty = Some(Num(3)),
              !.stop_sequences = <<"STOP">>, !.tools = Some(<<ServerTool("WebSearch")>>),
              !.tool_choice = Some([tag |-> "Auto"]),
              !.response_format = Some([tag |-> "JsonObject"])]}

from_messages(messages) == [ChatRequest_default EXCEPT !.messages = messages]

\* every option is stored as given
from_messages_with_options(messages, options) ==
    [ChatRequest_default EXCEPT
        !.messages = messages,
        !.model = options.model,
        !.temperature = options.temperature,
        !.max_tokens = options.max_tokens,
        !.top_p = options.top_p,
        !.frequency_penalty = options.frequency_penalty,
        !.presence_penalty = options.presence_penalty,
        !.stop = options.stop_sequences,
        !.tools = options.tools,
        !.tool_choice = options.tool_choice,
        !.response_format = options.response_format]

user_message(r, content) == [r EXCEPT !.messages = Append(@, UserMsg(content))]
system_message(r, text) == [r EXCEPT !.messages = Append(@, SystemMsg(text))]
assistant_message(r, text) == [r EXCEPT !.messages = Append(@, AssistantMsg(text))]
\* tool_result keeping only the new message: a mutant of tool_result
tool_result_replacing(r, id, content) == [r EXCEPT !.messages = <<ToolMsg(id, content)>>]
tool_result(r, id, content) == [r EXCEPT !.messages = Append(@, ToolMsg(id, content))]
user_multimodal(r, parts) == [r EXCEPT !.messages = Append(@, UserMsg(MultiModal(parts)))]
user_with_image(r, text, url) ==
    [r EXCEPT !.messages =
        Append(@, UserMsg(MultiModal(<<TextPart(text), ImageUrlPart(url, None)>>)))]
user_with_file(r, text, file_id) ==
    [r EXCEPT !.messages =
        Append(@, UserMsg(MultiModal(<<TextPart(text), FilePart(file_id)>>)))]

with_model(r, model) == [r EXCEPT !.model = Some(model)]
with_temperature(r, temp) ==
    [r EXCEPT !.temperature = Some(f32_clamp(temp, Num(TemperatureMin), Num(TemperatureMax)))]
with_top_p(r, top_p) ==
    [r EXCEPT !.top_p = Some(f32_clamp(top_p, Num(TopPMin), Num(TopPMax)))]
with_max_tokens(r, tokens) == [r EXCEPT !.max_tokens = Some(tokens)]
with_reasoning_effort(r, effort) == [r EXCEPT !.reasoning_effort = Some(effort)]
with_web_search(r) == [r EXCEPT !.search = Some(SearchConfig_web)]
with_json_output(r) == [r EXCEPT !.response_format = Some([tag |-> "JsonObject"])]
with_json_schema(r, schema) ==
    [r EXCEPT !.response_format = Some([tag |-> "JsonSchema", schema |-> schema])]
with_structured_output(r, schema) == with_json_schema(r, schema)
with_seed(r, seed) == [r EXCEPT !.seed = Some(seed)]
add_stop_sequence(r, seq) == [r EXCEPT !.stop = Append(@, seq)]
with_tools(r, tools) == [r EXCEPT !.tools = Some(tools)]
add_tool(r, tool) ==
    [r EXCEPT !.tools = IF @.some THEN Some(Append(@.val, tool)) ELSE Some(<<tool>>)]
with_tool_choice(r, choice) == [r EXCEPT !.tool_choice = Some(choice)]
with_user(r, user) == [r EXCEPT !.user = Some(user)]
with_logprobs(r, top_logprobs) ==
    [r EXCEPT !.logprobs = TRUE, !.top_logprobs = top_logprobs]
with_frequency_penalty(r, penalty) == [r EXCEPT !.frequency_penalty = Some(penalty)]
with_presence_penalty(r, penalty) == [r EXCEPT !.presence_penalty = Some(penalty)]
with_parallel_tool_calls(r, enabled) == [r EXCEPT !.parallel_tool_calls = Some(enabled)]
with_previous_response_id(r, id) == [r EXCEPT !.previous_response_id = Some(id)]
with_store_messages(r, store) == [r EXCEPT !.store_messages = store]
with_use_encrypted_content(r, use) == [r EXCEPT !.use_encrypted_content = use]
\* an assert that lets zero through: a mutant of max_turns_ok
max_turns_ok_from_zero(max_turns) == max_turns >= 0

\* the assert! of with_max_turns
max_turns_ok(max_turns) == max_turns >= 1
with_max_turns(r, max_turns) == [r EXCEPT !.max_turns = Some(max_turns)]
add_include_option(r, option) == [r EXCEPT !.include = Append(@, option)]
with_include_options(r, options) == [r EXCEPT !.include = options]

----------------------------------------------------------------------------
(* The wire adapter, request direction (conversions.rs).  Wire enums that  *)
(* the code writes as `Enum::Variant as i32` are kept by variant name.     *)

\* GrokConfig::default().default_model
DefaultModel == "grok-code-fast-1"

WireText(text) == [content |-> Some([case |-> "Text", text |-> text])]

ImageDetail_to_proto(detail) ==
    IF ~detail.some THEN "DetailAuto"
    ELSE CASE detail.val = "Auto" -> "DetailAuto"
           [] detail.val = "Low"  -> "DetailLow"
           [] detail.val = "High" -> "DetailHigh"

ContentPart_to_proto(part) ==
    CASE part.kind = "Text" -> WireText(part.text)
      [] part.kind = "ImageUrl" ->
            [content |-> Some([case |-> "ImageUrl", image_url |-> part.url,
                               detail |-> ImageDetail_to_proto(part.detail)])]
      [] part.kind = "File" ->
            [content |-> Some([case |-> "File", file_id |-> part.file_id])]

\* an adapter that sends the text parts first: a mutant of
\* message_content_to_proto
message_content_to_proto_text_first(content) ==
    CASE content.kind = "Text" -> <<WireText(content.text)>>
      [] content.kind = "MultiModal" ->
            MapSeq(ContentPart_to_proto,
                   SelectSeq(content.parts, LAMBDA part : part.kind = "Text")
                       \o SelectSeq(content.parts, LAMBDA part : part.kind # "Text"))

message_content_to_proto(content) ==
    CASE content.kind = "Text" -> <<WireText(content.text)>>
      [] content.kind = "MultiModal" -> MapSeq(ContentPart_to_proto, content.parts)

\* the match of message_to_proto has the arms System, User and Assistant
message_to_proto(message) ==
    CASE message.role = "System" ->
            [role |-> "RoleSystem", content |-> <<WireText(message.text)>>]
      [] message.role = "User" ->
            [role |-> "RoleUser", content |-> message_content_to_proto(message.content)]
      [] message.role = "Assistant" ->
            [role |-> "RoleAssistant", content |-> <<WireText(message.text)>>]
      [] OTHER -> [role |-> "NoMatchArm", content |-> <<>>]

\* Tool::to_proto with DocumentSearch sent as a collections search: a mutant
\* of Tool_to_proto
Tool_to_proto_shared_case(tool) ==
    [ tool |-> Some([ case |-> CASE tool.variant = "DocumentSearch" -> "CollectionsSearch"
                                 [] OTHER -> tool.variant,
                      config |-> tool ]) ]

\* Tool::to_proto: the oneof case of each variant, with the variant's
\* configuration
Tool_to_proto(tool) ==
    [ tool |-> Some([ case |-> CASE tool.variant = "Function" -> "Function"
                                 [] tool.variant = "WebSearch" -> "WebSearch"
                                 [] tool.variant = "XSearch" -> "XSearch"
                                 [] tool.variant = "CodeExecution" -> "CodeExecution"
                                 [] tool.variant = "CollectionsSearch" -> "CollectionsSearch"
                                 [] tool.variant = "Mcp" -> "Mcp"
                                 [] tool.variant = "DocumentSearch" -> "DocumentSearch",
                      config |-> tool ]) ]

ToolChoice_to_proto(choice) ==
    CASE choice.tag = "Auto" -> [tool_choice |-> Some([case |-> "Mode", mode |-> "Auto"])]
      [] choice.tag = "Required" ->
            [tool_choice |-> Some([case |-> "Mode", mode |-> "Required"])]
      [] choice.tag = "Function" ->
            [tool_choice |-> Some([case |-> "FunctionName", name |-> choice.name])]

ReasoningEffort_to_proto(effort) ==
    CASE effort = "Low" -> 1 [] effort = "Medium" -> 2 [] effort = "High" -> 3

SearchMode_to_proto(mode) ==
    CASE mode = "Off" -> 0 [] mode = "On" -> 1 [] mode = "Auto" -> 2

ResponseFormat_to_proto(format) ==
    CASE format.tag = "Text" -> [format_type |-> "Text", schema |-> None]
      [] format.tag = "JsonObject" -> [format_type |-> "JsonObject", schema |-> None]
      [] format.tag = "JsonSchema" ->
            [format_type |-> "JsonSchema", schema |-> Some(format.schema)]

\* Option::map
MapOption(F(_), o) == IF o.some THEN Some(F(o.val)) ELSE None

SearchConfig_to_proto(search) ==
    [mode |-> SearchMode_to_proto(search.mode),
     max_search_results |-> MapOption(as_i32, search.max_results)]

\* to_proto_request never returns Err: its only return is Ok(proto_req)
\* an adapter that always sends the default model: a mutant of to_proto_request
to_proto_request_default_only(default_model, request) ==
    Ok([ messages |-> MapSeq(message_to_proto, request.messages),
         model |-> default_model,
         max_tokens |-> MapOption(as_i32, request.max_tokens),
         temperature |-> request.temperature,
         top_p |-> request.top_p,
         stop |-> request.stop,
         seed |-> request.seed,
         tools |-> IF request.tools.some
                   THEN MapSeq(Tool_to_proto, request.tools.val) ELSE <<>>,
         tool_choice |-> MapOption(ToolChoice_to_proto, request.tool_choice),
         reasoning_effort |-> MapOption(ReasoningEffort_to_proto, request.reasoning_effort),
         search_parameters |-> MapOption(SearchConfig_to_proto, request.search),
         response_format |-> MapOption(ResponseFormat_to_proto, request.response_format),
         user |-> IF request.user.some THEN request.user.val ELSE "",
         logprobs |-> request.logprobs,
         top_logprobs |-> request.top_logprobs,
         frequency_penalty |-> request.frequency_penalty,
         presence_penalty |-> request.presence_penalty,
         parallel_tool_calls |-> request.parallel_tool_calls,
         previous_response_id |-> request.previous_response_id,
         store_messages |-> request.store_messages,
         use_encrypted_content |-> request.use_encrypted_content,
         max_turns |-> request.max_turns,
         include |-> request.include ])

to_proto_request(default_model, request) ==
    Ok([ messages |-> MapSeq(message_to_proto, request.messages),
         model |-> IF request.model.some THEN request.model.val ELSE default_model,
         max_tokens |-> MapOption(as_i32, request.max_tokens),
         temperature |-> request.temperature,
         top_p |-> request.top_p,
         stop |-> request.stop,
         seed |-> request.seed,
         tools |-> IF request.tools.some
                   THEN MapSeq(Tool_to_proto, request.tools.val) ELSE <<>>,
         tool_choice |-> MapOption(ToolChoice_to_proto, request.tool_choice),
         reasoning_effort |-> MapOption(ReasoningEffort_to_proto, request.reasoning_effort),
         search_parameters |-> MapOption(SearchConfig_to_proto, request.search),
         response_format |-> MapOption(ResponseFormat_to_proto, request.response_format),
         user |-> IF request.user.some THEN request.user.val ELSE "",
         logprobs |-> request.logprobs,
         top_logprobs |-> request.top_logprobs,
         frequency_penalty |-> request.frequency_penalty,
         presence_penalty |-> request.presence_penalty,
         parallel_tool_calls |-> request.parallel_tool_calls,
         previous_response_id |-> request.previous_response_id,
         store_messages |-> request.store_messages,
         use_encrypted_content |-> request.use_encrypted_content,
         max_turns |-> request.max_turns,
         include |-> request.include ])

----------------------------------------------------------------------------
(* Wire enums of the generated protobuf module (proto::...).               *)

\* proto::DeferredStatus::try_from
DeferredStatus_try_from(value) ==
    CASE value = 0 -> Ok("InvalidDeferredStatus")
      [] value = 1 -> Ok("Done")
      [] value = 2 -> Ok("Expired")
      [] value = 3 -> Ok("Pending")
      [] OTHER -> Err("UnknownEnumValue")

\* proto::ToolCallType::X as i32
ToolCallType_as_i32(variant) ==
    CASE variant = "Invalid" -> 0
      [] variant = "ClientSideTool" -> 1
      [] variant = "WebSearchTool" -> 2
      [] variant = "XSearchTool" -> 3
      [] variant = "CodeExecutionTool" -> 4
      [] variant = "CollectionsSearchTool" -> 5
      [] variant = "McpTool" -> 6

\* proto::ToolCallStatus::X as i32
ToolCallStatus_as_i32(variant) ==
    CASE variant = "InProgress" -> 0
      [] variant = "Completed" -> 1
      [] variant = "Incomplete" -> 2
      [] variant = "Failed" -> 3

\* proto::Modality::try_from: the generated enum of the wire modalities
Modality_try_from(value) ==
    CASE value = 0 -> Ok("InvalidModality")
      [] value = 1 -> Ok("Text")
      [] value = 2 -> Ok("Image")
      [] value = 3 -> Ok("Embedding")
      [] OTHER -> Err("UnknownEnumValue")

----------------------------------------------------------------------------
(* The response assembler (conversions.rs, tools.rs).                      *)

ToolCallKind_from_proto(value) ==
    CASE value = ToolCallType_as_i32("ClientSideTool") -> "ClientSideTool"
      [] value = ToolCallType_as_i32("WebSearchTool") -> "WebSearchTool"
      [] value = ToolCallType_as_i32("XSearchTool") -> "XSearchTool"
      [] value = ToolCallType_as_i32("CodeExecutionTool") -> "CodeExecutionTool"
      [] value = ToolCallType_as_i32("CollectionsSearchTool") -> "CollectionsSearchTool"
      [] value = ToolCallType_as_i32("McpTool") -> "McpTool"
      [] OTHER -> "Unknown"

ToolCallStatusKind_from_proto(value) ==
    CASE value = ToolCallStatus_as_i32("InProgress") -> "InProgress"
      [] value = ToolCallStatus_as_i32("Completed") -> "Completed"
      [] value = ToolCallStatus_as_i32("Incomplete") -> "Incomplete"
      [] value = ToolCallStatus_as_i32("Failed") -> "Failed"
      [] OTHER -> "InProgress"

\* ToolCallKind::to_proto sending Unknown as a client-side call: a mutant of
\* ToolCallKind_to_proto
ToolCallKind_to_proto_unknown_as_client(kind) ==
    CASE kind = "Unknown" -> "ClientSideTool"
      [] OTHER -> kind

\* ToolCallKind::to_proto: the wire type of a kind, Invalid for Unknown
ToolCallKind_to_proto(kind) ==
    CASE kind = "ClientSideTool" -> "ClientSideTool"
      [] kind = "WebSearchTool" -> "WebSearchTool"
      [] kind = "XSearchTool" -> "XSearchTool"
      [] kind = "CodeExecutionTool" -> "CodeExecutionTool"
      [] kind = "CollectionsSearchTool" -> "CollectionsSearchTool"
      [] kind = "McpTool" -> "McpTool"
      [] kind = "Unknown" -> "Invalid"

\* ToolCallStatusKind::to_proto
ToolCallStatusKind_to_proto(status) ==
    CASE status = "InProgress" -> "InProgress"
      [] status = "Completed" -> "Completed"
      [] status = "Incomplete" -> "Incomplete"
      [] status = "Failed" -> "Failed"

\* ToolCall::to_proto: the payload is always the function call
ToolCall_to_proto(tc) ==
    [ id |-> tc.id,
      type |-> ToolCallType_as_i32(ToolCallKind_to_proto(tc.call_type)),
      status |-> ToolCallStatus_as_i32(ToolCallStatusKind_to_proto(tc.status)),
      error_message |-> tc.error_message,
      tool |-> Some([name |-> tc.function.name, arguments |-> tc.function.arguments]) ]

\* From<proto::Modality> for Modality
Modality_from(proto) ==
    CASE proto = "Text" -> "Text"
      [] proto = "Image" -> "Image"
      [] proto = "Embedding" -> "Embedding"
      [] proto = "InvalidModality" -> "Text"

\* filter_map(|m| proto::Modality::try_from(m).ok()).map(Modality::from)
RECURSIVE modalities_from_proto(_)
modalities_from_proto(values) ==
    IF values = <<>> THEN <<>>
    ELSE LET m == Modality_try_from(Head(values))
             rest == modalities_from_proto(Tail(values)) IN
         IF m.ok THEN <<Modality_from(m.val)>> \o rest ELSE rest

\* From<proto::LanguageModel> for LanguageModel
LanguageModel_from(proto) ==
    [ name |-> proto.name,
      aliases |-> proto.aliases,
      version |-> proto.version,
      input_modalities |-> modalities_from_proto(proto.input_modalities),
      output_modalities |-> modalities_from_proto(proto.output_modalities),
      prompt_text_token_price |-> proto.prompt_text_token_price,
      prompt_image_token_price |-> proto.prompt_image_token_price,
      cached_prompt_token_price |-> proto.cached_prompt_token_price,
      completion_text_token_price |-> proto.completion_text_token_price,
      search_price |-> proto.search_price,
      max_prompt_length |-> proto.max_prompt_length,
      system_fingerprint |-> proto.system_fingerprint ]

\* From<proto::EmbeddingModel> for EmbeddingModel
EmbeddingModel_from(proto) ==
    [ name |-> proto.name,
      aliases |-> proto.aliases,
      version |-> proto.version,
      input_modalities |-> modalities_from_proto(proto.input_modalities),
      output_modalities |-> modalities_from_proto(proto.output_modalities),
      prompt_text_token_price |-> proto.prompt_text_token_price,
      prompt_image_token_price |-> proto.prompt_image_token_price,
      system_fingerprint |-> proto.system_fingerprint ]

\* From<proto::ImageGenerationModel> for ImageGenerationModel
ImageGenerationModel_from(proto) ==
    [ name |-> proto.name,
      aliases |-> proto.aliases,
      version |-> proto.version,
      input_modalities |-> modalities_from_proto(proto.input_modalities),
      output_modalities |-> modalities_from_proto(proto.output_modalities),
      image_price |-> proto.image_price,
      max_prompt_length |-> proto.max_prompt_length,
      system_fingerprint |-> proto.system_fingerprint ]

\* From<proto::ApiKey> for ApiKeyInfo: a missing timestamp reads as 0 seconds
ApiKeyInfo_from(proto) ==
    [ redacted_api_key |-> proto.redacted_api_key,
      user_id |-> proto.user_id,
      name |-> proto.name,
      created_at |-> IF proto.create_time.some THEN proto.create_time.val.seconds ELSE 0,
      modified_at |-> IF proto.modify_time.some THEN proto.modify_time.val.seconds ELSE 0,
      modified_by |-> proto.modified_by,
      team_id |-> proto.team_id,
      acls |-> proto.acls,
      api_key_id |-> proto.api_key_id,
      api_key_blocked |-> proto.api_key_blocked,
      team_blocked |-> proto.team_blocked,
      disabled |-> proto.disabled ]

\* From<proto::SampleTextResponse> for SampleResponse, with
\* From<proto::SampleChoice> for SampleChoice: the finish reason is given by
\* its name, "unknown" for REASON_INVALID and for a number that is no reason
\* (the numbers are those of parse_finish_reason_static)
SampleResponse_from(proto) ==
    LET SampleChoice_from(choice) ==
            [ index |-> choice.index,
              text |-> choice.text,
              finish_reason |->
                    CASE choice.finish_reason = 3 -> "stop"
                      [] choice.finish_reason = 1 -> "length"
                      [] choice.finish_reason = 2 -> "max_context"
                      [] choice.finish_reason = 4 -> "tool_calls"
                      [] choice.finish_reason = 5 -> "time_limit"
                      [] OTHER -> "unknown" ] IN
    [ id |-> proto.id,
      choices |-> MapSeq(SampleChoice_from, proto.choices),
      model |-> proto.model,
      total_tokens |-> IF proto.usage.some THEN proto.usage.val.total_tokens ELSE 0 ]

\* From<proto::ImageResponse> for ImageGenerationResponse, with
\* From<proto::GeneratedImage> for GeneratedImage
ImageGenerationResponse_from(proto) ==
    LET GeneratedImage_from(image) ==
            [ base64 |-> IF image.image.some /\ image.image.val.case = "Base64"
                         THEN Some(image.image.val.data) ELSE None,
              url |-> IF image.image.some /\ image.image.val.case = "Url"
                      THEN Some(image.image.val.data) ELSE None,
              upsampled_prompt |-> image.up_sampled_prompt,
              respects_moderation |-> image.respect_moderation ] IN
    [ images |-> MapSeq(GeneratedImage_from, proto.images),
      model |-> proto.model ]

\* From<proto::SearchResponse> for DocumentSearchResponse, with
\* From<proto::SearchMatch> for SearchMatch
DocumentSearchResponse_from(proto) ==
    LET SearchMatch_from(match) ==
            [ file_id |-> match.file_id,
              chunk_id |-> match.chunk_id,
              content |-> match.chunk_content,
              score |-> match.score,
              collection_ids |-> match.collection_ids ] IN
    [matches |-> MapSeq(SearchMatch_from, proto.matches)]

\* ToolCall::from_proto: None when the oneof `tool` is absent
ToolCall_from_proto(proto) ==
    IF ~proto.tool.some THEN None
    ELSE Some([ id |-> proto.id,
                call_type |-> ToolCallKind_from_proto(proto.type),
                status |-> ToolCallStatusKind_from_proto(proto.status),
                error_message |-> proto.error_message,
                function |-> [name |-> proto.tool.val.name,
                              arguments |-> proto.tool.val.arguments] ])

\* a decoding that stops after the first wire tool call: a mutant of
\* tool_calls_from_proto
tool_calls_from_proto_first_only(tcs) ==
    IF tcs = <<>> THEN <<>>
    ELSE LET tc == ToolCall_from_proto(Head(tcs)) IN
         IF tc.some THEN <<tc.val>> ELSE <<>>

\* iter().filter_map(|tc| ToolCall::from_proto(tc.clone())).collect()
RECURSIVE tool_calls_from_proto(_)
tool_calls_from_proto(tcs) ==
    IF tcs = <<>> THEN <<>>
    ELSE LET tc == ToolCall_from_proto(Head(tcs)) IN
         (IF tc.some THEN <<tc.val>> ELSE <<>>) \o tool_calls_from_proto(Tail(tcs))

\* a table that sends code 2 to Unknown: a mutant of parse_finish_reason_static
parse_finish_reason_no_max_context(reason) ==
    CASE reason = 3 -> [tag |-> "Stop"]
      [] reason = 1 -> [tag |-> "Length"]
      [] reason = 4 -> [tag |-> "ToolCalls"]
      [] reason = 5 -> [tag |-> "Error", msg |-> "Time limit reached"]
      [] OTHER -> [tag |-> "Unknown"]

parse_finish_reason_static(reason) ==
    CASE reason = 3 -> [tag |-> "Stop"]
      [] reason \in {1, 2} -> [tag |-> "Length"]
      [] reason = 4 -> [tag |-> "ToolCalls"]
      [] reason = 5 -> [tag |-> "Error", msg |-> "Time limit reached"]
      [] OTHER -> [tag |-> "Unknown"]

\* proto usage |u| TokenUsage { .. as u32 }, unwrap_or_default
TokenUsage_from_proto(usage) ==
    IF usage.some
    THEN [ prompt_tokens |-> as_u32(usage.val.prompt_tokens),
           completion_tokens |-> as_u32(usage.val.completion_tokens),
           total_tokens |-> as_u32(usage.val.total_tokens) ]
    ELSE [prompt_tokens |-> 0, completion_tokens |-> 0, total_tokens |-> 0]

TopLogProb_from_proto(top) ==
    [token |-> top.token, logprob |-> top.logprob, bytes |-> top.bytes]

LogProb_from_proto(log_prob) ==
    [ token |-> log_prob.token, logprob |-> log_prob.logprob, bytes |-> log_prob.bytes,
      top_logprobs |-> MapSeq(TopLogProb_from_proto, log_prob.top_logprobs) ]

LogProbs_from_proto(lp) == [content |-> MapSeq(LogProb_from_proto, lp.content)]

\* a string kept whether empty or not: a mutant of non_empty
non_empty_kept(str) == Some(str)

\* `if s.is_empty() { None } else { Some(s) }`
non_empty(str) == IF str = "" THEN None ELSE Some(str)

\* an assembler that takes a missing message for an empty one: a mutant of
\* proto_to_response
proto_to_response_lenient(proto) ==
    IF Len(proto.outputs) = 0
    THEN Err(InvalidRequest("Response has no outputs"))
    ELSE LET output == proto.outputs[1] IN
         Ok([ request_id |-> proto.id,
              content |-> IF output.message.some THEN output.message.val.content ELSE "",
              finish_reason |-> parse_finish_reason_static(output.finish_reason),
              model |-> proto.model,
              usage |-> TokenUsage_from_proto(proto.usage),
              citations |-> proto.citations,
              tool_calls |-> IF output.message.some
                             THEN tool_calls_from_proto(output.message.val.tool_calls)
                             ELSE <<>>,
              reasoning_content |-> IF output.message.some
                                    THEN non_empty(output.message.val.reasoning_content)
                                    ELSE None,
              logprobs |-> MapOption(LogProbs_from_proto, output.logprobs),
              created |-> MapOption(LAMBDA ts : ts.seconds, proto.created),
              system_fingerprint |-> non_empty(proto.system_fingerprint) ])

proto_to_response(proto) ==
    IF Len(proto.outputs) = 0
    THEN Err(InvalidRequest("Response has no outputs"))
    ELSE LET output == proto.outputs[1] IN
         IF ~output.message.some
         THEN Err(InvalidRequest("Output has no message"))
         ELSE LET message == output.message.val IN
              Ok([ request_id |-> proto.id,
                   content |-> message.content,
                   reasoning_content |-> non_empty(message.reasoning_content),
                   tool_calls |-> tool_calls_from_proto(message.tool_calls),
                   finish_reason |-> parse_finish_reason_static(output.finish_reason),
                   usage |-> TokenUsage_from_proto(proto.usage),
                   logprobs |-> MapOption(LogProbs_from_proto, output.logprobs),
                   created |-> MapOption(LAMBDA ts : ts.seconds, proto.created),
                   system_fingerprint |-> non_empty(proto.system_fingerprint),
                   model |-> proto.model,
                   citations |-> proto.citations ])

\* a chunk assembler that decodes the zero code too: a mutant of
\* chunk_finish_reason
chunk_finish_reason_unfiltered(outputs) ==
    IF Len(outputs) = 0 THEN None
    ELSE Some(parse_finish_reason_static(outputs[1].finish_reason))

\* output.map(|o| o.finish_reason).filter(|&r| r != 0).map(parse_finish_reason_static)
chunk_finish_reason(outputs) ==
    IF Len(outputs) = 0 THEN None
    ELSE IF outputs[1].finish_reason = 0 THEN None
    ELSE Some(parse_finish_reason_static(outputs[1].finish_reason))

\* output.and_then(|o| o.delta.as_ref()): the first output's delta, if both exist
first_delta(outputs) == IF Len(outputs) = 0 THEN None ELSE outputs[1].delta

proto_chunk_to_chunk(chunk) ==
    LET delta == first_delta(chunk.outputs) IN
    Ok([ delta |-> IF delta.some THEN delta.val.content ELSE "",
         reasoning_delta |-> IF delta.some THEN non_empty(delta.val.reasoning_content)
                             ELSE None,
         tool_calls |-> IF delta.some THEN tool_calls_from_proto(delta.val.tool_calls)
                        ELSE <<>>,
         finish_reason |-> chunk_finish_reason(chunk.outputs),
         cumulative_usage |-> TokenUsage_from_proto(chunk.usage),
         logprobs |-> IF Len(chunk.outputs) = 0 THEN None
                      ELSE MapOption(LogProbs_from_proto, chunk.outputs[1].logprobs),
         citations |-> chunk.citations ])

----------------------------------------------------------------------------
(* Embedding responses (conversions.rs).  An f32 of an embedding is its    *)
(* bit pattern, a record of its four bytes, the sign byte first.  A base64 *)
(* string is the sequence of its characters, each given by its value in    *)
(* the standard alphabet (0..63), with 64 for '=' and 65 for a character   *)
(* outside the alphabet.                                                   *)

\* base64::engine::general_purpose::STANDARD.decode: groups of four
\* characters give three bytes; the last group may end in one or two '=' and
\* then gives two or one bytes, its unused bits being zero
RECURSIVE base64_decode(_)
base64_decode(str) ==
    IF str = <<>> THEN Ok(<<>>)
    ELSE IF Len(str) < 4 THEN Err("DecodeError")
    ELSE LET a == str[1]
             b == str[2]
             c == str[3]
             d == str[4]
             rest == SubSeq(str, 5, Len(str)) IN
         IF a \notin 0 .. 63 \/ b \notin 0 .. 63 THEN Err("DecodeError")
         ELSE IF c \in 0 .. 63 /\ d \in 0 .. 63
         THEN LET more == base64_decode(rest) IN
              IF more.ok
              THEN Ok(<< a * 4 + b \div 16, (b % 16) * 16 + c \div 4, (c % 4) * 64 + d >>
                      \o more.val)
              ELSE more
         ELSE IF rest = <<>> /\ c \in 0 .. 63 /\ d = 64 /\ c % 4 = 0
         THEN Ok(<< a * 4 + b \div 16, (b % 16) * 16 + c \div 4 >>)
         ELSE IF rest = <<>> /\ c = 64 /\ d = 64 /\ b % 16 = 0
         THEN Ok(<< a * 4 + b \div 16 >>)
         ELSE Err("DecodeError")

\* a reading with the first byte as the sign byte: a mutant of f32_from_le_bytes
f32_from_be_bytes(bytes) == [bits |-> <<bytes[1], bytes[2], bytes[3], bytes[4]>>]

\* f32::from_le_bytes: the last byte is the sign byte
f32_from_le_bytes(bytes) == [bits |-> <<bytes[4], bytes[3], bytes[2], bytes[1]>>]

\* decoded.chunks_exact(4).map(f32::from_le_bytes).collect()
RECURSIVE floats_from_chunks(_)
floats_from_chunks(decoded) ==
    IF Len(decoded) < 4 THEN <<>>
    ELSE <<f32_from_le_bytes(SubSeq(decoded, 1, 4))>>
            \o floats_from_chunks(SubSeq(decoded, 5, Len(decoded)))

\* the text of the base64 error after "invalid base64 embedding" is left out
decode_base64_embedding(base64_str) ==
    LET decoded == base64_decode(base64_str) IN
    IF ~decoded.ok THEN Err(InvalidRequest("invalid base64 embedding"))
    ELSE IF Len(decoded.val) % 4 # 0
    THEN Err(InvalidRequest("embedding byte length not divisible by 4"))
    ELSE Ok(floats_from_chunks(decoded.val))

\* the closure of proto_to_embed_response, on one proto::Embedding
proto_to_embedding(emb) ==
    IF emb.embeddings = <<>> THEN Err(InvalidRequest("missing embedding vector"))
    ELSE LET fv == emb.embeddings[1]
             vector == IF fv.float_array # <<>> THEN Ok(fv.float_array)
                       ELSE IF fv.base64_array # <<>>
                       THEN decode_base64_embedding(fv.base64_array)
                       ELSE Err(InvalidRequest(
                                "embedding had neither float nor base64 array")) IN
         IF vector.ok
         THEN Ok([index |-> as_usize(emb.index), vector |-> vector.val])
         ELSE vector

\* collect::<Result<Vec<_>>>() returns the first error
proto_to_embed_response(response) ==
    LET n == Len(response.embeddings)
        each == [i \in 1 .. n |-> proto_to_embedding(response.embeddings[i])]
        failed == {i \in 1 .. n : ~each[i].ok} IN
    IF failed # {}
    THEN each[CHOOSE i \in failed : \A j \in failed : i <= j]
    ELSE Ok([ id |-> response.id,
              embeddings |-> [i \in 1 .. n |-> each[i].val],
              usage |-> IF response.usage.some
                        THEN [ num_text_embeddings |->
                                   as_u32(response.usage.val.num_text_embeddings),
                               num_image_embeddings |->
                                   as_u32(response.usage.val.num_image_embeddings) ]
                        ELSE [num_text_embeddings |-> 0, num_image_embeddings |-> 0],
              model |-> response.model,
              system_fingerprint |-> response.system_fingerprint ])

\* embed_request_to_proto
embed_request_to_proto(request) ==
    LET EmbedInput_to_proto(input) ==
            CASE input.kind = "Text" ->
                    [input |-> Some([case |-> "String", text |-> input.text])]
              [] input.kind = "Image" ->
                    [input |-> Some([ case |-> "ImageUrl", image_url |-> input.url,
                                      detail |-> CASE input.detail = "Auto" -> "DetailAuto"
                                                   [] input.detail = "Low" -> "DetailLow"
                                                   [] input.detail = "High" -> "DetailHigh" ])] IN
    [ input |-> MapSeq(EmbedInput_to_proto, request.inputs),
      model |-> request.model,
      encoding_format |-> CASE request.encoding_format = "Float" -> "FormatFloat"
                            [] request.encoding_format = "Base64" -> "FormatBase64",
      user |-> IF request.user.some THEN request.user.val ELSE "" ]

----------------------------------------------------------------------------
(* Client construction (client/config.rs).  A constructor gives its result *)
(* and the number of connections it attempted; `net` is what the network   *)
(* answers to a connection attempt.  Durations are seconds.                *)

GrokConfig_default ==
    [ endpoint |-> "https://api.x.ai", api_key |-> "",
      default_model |-> DefaultModel, timeout |-> 60 ]

\* Url::parse, host_str and Endpoint::from_shared fail, in this order, before
\* any connection; endpoint.connect() is the one connection attempt.  The
\* three are given by their results on the endpoints of ConvNext: `url` is
\* Url::parse, with the Display text of its ParseError and the host of a
\* parsed URL, and `uri` tells whether Endpoint::from_shared parses the text
\* as an http::Uri (a space in the path is accepted by Url::parse and
\* rejected there).
build_channel_from_config(config, net) ==
    LET url ==
            CASE config.endpoint \in {"https://api.x.ai", "https://api.x.ai/a b"} ->
                    Ok([host_str |-> Some("api.x.ai")])
              [] config.endpoint = "https://eu.x.ai" ->
                    Ok([host_str |-> Some("eu.x.ai")])
              [] config.endpoint \in {"data:text/plain,x", "mailto:a@b.c"} ->
                    Ok([host_str |-> None])
              [] config.endpoint \in {"", "not a url", "api.x.ai"} ->
                    Err("relative URL without a base")
              [] config.endpoint = "https://" -> Err("empty host")
              [] config.endpoint = "https://api.x.ai:99999" ->
                    Err("invalid port number")
        uri == config.endpoint # "https://api.x.ai/a b" IN
    IF ~url.ok
    THEN [ result |-> Err([kind |-> "Config",
                           msg |-> "Invalid endpoint URL: " \o url.err]),
           connects |-> 0 ]
    ELSE IF ~url.val.host_str.some
    THEN [ result |-> Err([kind |-> "Config",
                           msg |-> "Endpoint URL does not contain a valid host"]),
           connects |-> 0 ]
    ELSE IF ~uri
    THEN [result |-> Err([kind |-> "Transport"]), connects |-> 0]
    ELSE [ result |-> IF net = "connected"
                      THEN Ok([endpoint |-> config.endpoint, timeout |-> config.timeout])
                      ELSE Err([kind |-> "Transport"]),
           connects |-> 1 ]

\* GrokClient::with_channel: the key is stored as given
with_channel(channel, api_key) ==
    [ channel |-> channel,
      config |-> [ endpoint |-> "https://api.x.ai", api_key |-> api_key,
                   default_model |-> "grok-code-fast-1", timeout |-> 60 ] ]

\* GrokClient::new without the test of the key: a mutant of GrokClient_new
GrokClient_new_unchecked(config, net) ==
    LET channel == build_channel_from_config(config, net) IN
    IF ~channel.result.ok THEN channel
    ELSE [ result |-> Ok([with_channel(channel.result.val, config.api_key)
                            EXCEPT !.config = config]),
           connects |-> channel.connects ]

\* GrokClient::new
GrokClient_new(config, net) ==
    IF config.api_key = ""
    THEN [ result |-> Err([kind |-> "Config", msg |-> "API key is empty"]),
           connects |-> 0 ]
    ELSE LET channel == build_channel_from_config(config, net) IN
         IF ~channel.result.ok THEN channel
         ELSE [ result |-> Ok([with_channel(channel.result.val, config.api_key)
                                 EXCEPT !.config = config]),
                connects |-> channel.connects ]

\* GrokClient::connect
GrokClient_connect(api_key, net) ==
    GrokClient_new([GrokConfig_default EXCEPT !.api_key = api_key], net)

\* GrokClient::from_env; `var` is std::env::var("XAI_API_KEY")
GrokClient_from_env(var, net) ==
    IF ~var.ok THEN [result |-> Err([kind |-> "EnvVar", var_error |-> var.err]),
                     connects |-> 0]
    ELSE GrokClient_new([GrokConfig_default EXCEPT !.api_key = var.val], net)

----------------------------------------------------------------------------
(* The wire values a server may send.                                      *)

\* message.tool_calls: none; a call without its payload before a complete one;
\* a call whose type and status are no known enum values
WireToolCallLists ==
    { <<>>,
      << [ id |-> "call_2", type |-> 2, status |-> 0, error_message |-> None,
           tool |-> None ],
         [ id |-> "call_1", type |-> 1, status |-> 1, error_message |-> None,
           tool |-> Some([name |-> "get_weather", arguments |-> "{}"]) ] >>,
      << [ id |-> "call_3", type |-> 9, status |-> 7, error_message |-> Some("boom"),
           tool |-> Some([name |-> "f", arguments |-> ""]) ] >>,
      << [ id |-> "call_4", type |-> 1, status |-> 1, error_message |-> None,
           tool |-> Some([name |-> "get_time", arguments |-> "{}"]) ],
         [ id |-> "call_5", type |-> 4, status |-> 3, error_message |-> None,
           tool |-> None ],
         [ id |-> "call_6", type |-> 1, status |-> 0, error_message |-> None,
           tool |-> Some([name |-> "get_weather", arguments |-> "{}"]) ] >> }

\* i32 finish-reason codes: both ends of the range and every code near the table
WireFinishCodes == {I32Min, I32Max} \cup (-1 .. MaxCode)

WireLogProbs ==
    { None,
      Some([content |-> << [ token |-> "a", logprob |-> Num(-3), bytes |-> <<97>>,
                             top_logprobs |-> << [token |-> "b", logprob |-> Num(-9),
                                                  bytes |-> <<98>>] >> ] >>]) }

WireUsages ==
    { None,
      Some([prompt_tokens |-> 1, completion_tokens |-> 2, total_tokens |-> 3]),
      Some([prompt_tokens |-> -1, completion_tokens |-> I32Min, total_tokens |-> I32Max]) }

\* proto::GetChatCompletionResponse
WireResponses ==
    LET WireMessages ==
            [ content : {"hi"}, reasoning_content : {"", "thinking"},
              tool_calls : WireToolCallLists ]
        WireOutputs ==
            [ message : OptionOf(WireMessages), finish_reason : WireFinishCodes,
              logprobs : WireLogProbs ]
        WireLaterOutputs ==
            { [ message |-> None, finish_reason |-> 4, logprobs |-> None ],
              [ message |-> Some([content |-> "second", reasoning_content |-> "other",
                                  tool_calls |-> <<>>]),
                finish_reason |-> 0, logprobs |-> None ] }
        WireOutputLists ==
            {<<>>} \cup {<<o>> : o \in WireOutputs}
                   \cup {<<o, l>> : o \in WireOutputs, l \in WireLaterOutputs}
    IN
    [ id : {"resp_1"}, model : {"grok-3"}, outputs : WireOutputLists,
      usage : WireUsages, citations : {<<"http://c">>},
      created : {None, Some([seconds |-> 1700000000])},
      system_fingerprint : {"", "fp_1"} ]

\* proto::GetChatCompletionChunk
WireChunks ==
    LET WireDeltas ==
            [ content : {"tok"}, reasoning_content : {"", "thinking"},
              tool_calls : WireToolCallLists ]
        WireChunkOutputs ==
            [ delta : OptionOf(WireDeltas), finish_reason : WireFinishCodes,
              logprobs : WireLogProbs ]
        WireLaterChunkOutputs ==
            { [ delta |-> None, finish_reason |-> 3, logprobs |-> None ],
              [ delta |-> Some([content |-> "second", reasoning_content |-> "other",
                                tool_calls |-> <<>>]),
                finish_reason |-> 0, logprobs |-> None ] }
        WireChunkOutputLists ==
            {<<>>} \cup {<<o>> : o \in WireChunkOutputs}
                   \cup {<<o, l>> : o \in WireChunkOutputs, l \in WireLaterChunkOutputs}
    IN
    [ outputs : WireChunkOutputLists, usage : WireUsages,
      citations : {<<>>, <<"http://c">>} ]

\* base64 strings of 0, 4, 8, 12, 7, 3, 1 and 5 bytes ("AACAPw==",
\* "AACAPwAAAMA=", "AAAAPwAAwH8AAACA", "AACAPwAAAA==", "AQID", "/w==",
\* "AQIDBAU="), then strings that are not base64: no padding, a character
\* outside the alphabet, '=' inside, unused bits set
\* proto::EmbedResponse, over those strings: one embedding with each pair of representations and
\* with no feature vector, two feature vectors, two embeddings, none
WireEmbedResponses ==
    LET WireBase64Strings ==
        { <<>>,
          <<0, 0, 2, 0, 15, 48, 64, 64>>,
          <<0, 0, 2, 0, 15, 48, 0, 0, 0, 12, 0, 64>>,
          <<0, 0, 0, 0, 15, 48, 0, 0, 48, 7, 60, 0, 0, 0, 2, 0>>,
          <<0, 0, 2, 0, 15, 48, 0, 0, 0, 0, 64, 64>>,
          <<0, 16, 8, 3>>,
          <<63, 48, 64, 64>>,
          <<0, 16, 8, 3, 1, 0, 20, 64>>,
          <<0, 0, 2, 0, 15, 48>>,
          <<0, 0, 65, 0, 15, 48, 64, 64>>,
          <<0, 0, 64, 64, 0, 0, 2, 0>>,
          <<0, 0, 2, 0, 15, 49, 64, 64>> }
        floats == << [bits |-> <<63, 0, 0, 0>>], [bits |-> <<127, 192, 0, 1>>] >>
        vectors == [float_array : {<<>>, floats}, base64_array : WireBase64Strings]
        good == [float_array |-> floats, base64_array |-> <<>>]
        lists == {<<>>} \cup {<<fv>> : fv \in vectors}
                        \cup {<<fv, good>> : fv \in vectors}
        embeddings == [index : {0, 3, -1, I32Min}, embeddings : lists]
        first == [index |-> 0, embeddings |-> <<good>>] IN
    [ id : {"emb_1"}, model : {"v1"}, system_fingerprint : {""},
      usage : {None, Some([num_text_embeddings |-> 1, num_image_embeddings |-> -1])},
      embeddings : {<<>>} \cup {<<e>> : e \in embeddings}
                           \cup {<<first, e>> : e \in embeddings}
                           \cup {<<e, first>> : e \in embeddings} ]

\* the completion payloads used where a whole operation is followed
PayloadGood ==
    [ id |-> "resp_1", model |-> "grok-3",
      outputs |-> << [ message |-> Some([content |-> "hi", reasoning_content |-> "",
                                         tool_calls |-> <<>>]),
                       finish_reason |-> 3, logprobs |-> None ] >>,
      usage |-> Some([prompt_tokens |-> 1, completion_tokens |-> 2, total_tokens |-> 3]),
      citations |-> <<"http://c">>, created |-> None, system_fingerprint |-> "fp_1" ]
\* the good payload, one without outputs, one whose output has no message
Payloads ==
    { PayloadGood,
      [PayloadGood EXCEPT !.outputs = <<>>],
      [PayloadGood EXCEPT !.outputs = <<[message |-> None, finish_reason |-> 3,
                                         logprobs |-> None]>>] }

\* what a unary remote call may answer: a tonic::Status, or a message
RpcReplies(messages) == {Err(c) : c \in StatusCodes} \cup {Ok(m) : m \in messages}

\* proto::GetDeferredCompletionResponse: every status with and without a
\* payload, and Done with each payload
DeferredResponses ==
    [status : -1 .. MaxStatus, response : {None, Some(PayloadGood)}]
        \cup [status : {1}, response : OptionOf(Payloads)]

RequestIds == {"req-1", "req-2"}

----------------------------------------------------------------------------
(* The client operations (operations.rs).  An operation runs as one task;  *)
(* it is split where the task awaits: a remote call's reply, a sleep.      *)

NoResult == [returned |-> FALSE]
Unit == <<>>

ConvIdle == conv_fn = "none" /\ conv_in = None /\ conv_out = None
NoRequest == [constructed |-> FALSE]
ReqIdle == req = NoRequest /\ built = <<>> /\ panicked = FALSE /\ wire = None

\* the requests used where a whole operation is followed
OpRequests ==
    { user_message(ChatRequest_default, TextContent("hello")),
      with_max_tokens(with_model(system_message(ChatRequest_default, "be brief"),
                                 "grok-3"), 100) }

RemoteCall(method, request) == [method |-> method, request |-> request]

\* a status that is swallowed and read as "still pending": a mutant of
\* StatusToError
StatusSwallowed(reply) == Ok(None)

\* `.await?` on a remote call: a tonic::Status becomes GrokError::Status
StatusToError(reply) == Err(StatusError(reply.err))

\* an elapsed-time test that allows one more clock unit: a mutant of TimedOut
TimedOutLate(elapsed, limit) == elapsed > limit + 1

\* an elapsed-time test that is not strict: a mutant of TimedOut
TimedOutAtLimit(elapsed, limit) == elapsed >= limit

\* `start.elapsed() > timeout`
TimedOut(elapsed, limit) == elapsed > limit

\* a poll that takes an unrecognized status for Pending: a mutant of
\* deferred_status
deferred_status_pending_fallback(value) ==
    LET status == DeferredStatus_try_from(value) IN
    IF status.ok THEN status.val ELSE "Pending"

\* DeferredStatus::try_from(response.status).unwrap_or(InvalidDeferredStatus)
deferred_status(value) ==
    LET status == DeferredStatus_try_from(value) IN
    IF status.ok THEN status.val ELSE "InvalidDeferredStatus"

\* a poll that takes Done without a payload for Pending: a mutant of
\* poll_deferred_result
poll_deferred_result_done_none(reply) ==
    IF ~reply.ok THEN StatusToError(reply)
    ELSE LET response == reply.val
             status == deferred_status(response.status) IN
         CASE status = "Done" ->
                IF response.response.some
                THEN LET converted == proto_to_response(response.response.val) IN
                     IF converted.ok THEN Ok(Some(converted.val)) ELSE converted
                ELSE Ok(None)
           [] status = "Pending" -> Ok(None)
           [] status = "Expired" -> Err(InvalidRequest("Deferred request has expired"))
           [] status = "InvalidDeferredStatus" ->
                Err(InvalidRequest("Invalid deferred status"))

\* a poll that takes Done with a payload for Pending: a mutant of
\* poll_deferred_result
poll_deferred_result_ignores_done(reply) ==
    IF ~reply.ok THEN StatusToError(reply)
    ELSE LET response == reply.val
             status == deferred_status(response.status) IN
         CASE status = "Done" ->
                IF response.response.some
                THEN Ok(None)
                ELSE Err(InvalidRequest("Deferred request marked as done but no response"))
           [] status = "Pending" -> Ok(None)
           [] status = "Expired" -> Err(InvalidRequest("Deferred request has expired"))
           [] status = "InvalidDeferredStatus" ->
                Err(InvalidRequest("Invalid deferred status"))

\* a poll that takes Expired for Pending: a mutant of poll_deferred_result
poll_deferred_result_expired_pending(reply) ==
    IF ~reply.ok THEN StatusToError(reply)
    ELSE LET response == reply.val
             status == deferred_status(response.status) IN
         CASE status = "Done" ->
                IF response.response.some
                THEN LET converted == proto_to_response(response.response.val) IN
                     IF converted.ok THEN Ok(Some(converted.val)) ELSE converted
                ELSE Err(InvalidRequest("Deferred request marked as done but no response"))
           [] status = "Pending" -> Ok(None)
           [] status = "Expired" -> Ok(None)
           [] status = "InvalidDeferredStatus" ->
                Err(InvalidRequest("Invalid deferred status"))

\* poll_deferred from the reply of get_deferred_completion on: Ok(None) while
\* pending, Ok(Some(response)) when done
poll_deferred_result(reply) ==
    IF ~reply.ok THEN StatusToError(reply)
    ELSE LET response == reply.val
             status == deferred_status(response.status) IN
         CASE status = "Done" ->
                IF response.response.some
                THEN LET converted == proto_to_response(response.response.val) IN
                     IF converted.ok THEN Ok(Some(converted.val)) ELSE converted
                ELSE Err(InvalidRequest("Deferred request marked as done but no response"))
           [] status = "Pending" -> Ok(None)
           [] status = "Expired" -> Err(InvalidRequest("Deferred request has expired"))
           [] status = "InvalidDeferredStatus" ->
                Err(InvalidRequest("Invalid deferred status"))

\* a sleep of half the interval: a mutant of sleep_deadline
sleep_deadline_half(at, duration) == at + duration \div 2

\* tokio::time::sleep(duration) begun at `at` completes at or after this instant
sleep_deadline(at, duration) == at + duration

\* a status request with no identifier: a mutant of GetDeferredRequest
GetDeferredRequest_blank(id) == [request_id |-> ""]

\* `proto::GetDeferredRequest { request_id }`
GetDeferredRequest(id) == [request_id |-> id]

\* an operation begins: `op` is called and issues its remote call
Begin(name, call) ==
    /\ op = "none" /\ pc = "idle"
    /\ op' = name
    /\ calls' = Append(calls, call)
    /\ pc' = "rpc"
    /\ UNCHANGED <<request_id, poll_interval, timeout, now, start, wake_at, replies,
                   checks, sleeps, result, stream, yielded>>
    /\ UNCHANGED <<convVars, reqVars>>

\* an operation of one remote call receives the reply and returns
Finish(name, reply, value) ==
    /\ op = name /\ pc = "rpc"
    /\ replies' = Append(replies, reply)
    /\ result' = value
    /\ pc' = "done"
    /\ UNCHANGED <<op, request_id, poll_interval, timeout, now, start, wake_at, calls,
                   checks, sleeps, stream, yielded>>
    /\ UNCHANGED <<convVars, reqVars>>

complete_chat_call(request) ==
    LET proto_request == to_proto_request(DefaultModel, request) IN
    /\ proto_request.ok
    /\ Begin("complete_chat", RemoteCall("get_completion", proto_request.val))

complete_chat_reply(reply) ==
    /\ Finish("complete_chat", reply,
           IF ~reply.ok THEN StatusToError(reply) ELSE proto_to_response(reply.val))

start_deferred_call(request) ==
    LET proto_request == to_proto_request(DefaultModel, request) IN
    /\ proto_request.ok
    /\ Begin("start_deferred", RemoteCall("start_deferred_completion", proto_request.val))

start_deferred_reply(reply) ==
    /\ Finish("start_deferred", reply,
           IF ~reply.ok THEN StatusToError(reply) ELSE Ok(reply.val.request_id))

poll_deferred_call(id) ==
    /\ Begin("poll_deferred", RemoteCall("get_deferred_completion", GetDeferredRequest(id)))

poll_deferred_reply(reply) ==
    /\ Finish("poll_deferred", reply, poll_deferred_result(reply))

get_stored_completion_call(response_id) ==
    /\ Begin("get_stored_completion",
             RemoteCall("get_stored_completion", [response_id |-> response_id]))

get_stored_completion_reply(reply) ==
    /\ Finish("get_stored_completion", reply,
           IF ~reply.ok THEN StatusToError(reply) ELSE proto_to_response(reply.val))

delete_stored_completion_call(response_id) ==
    /\ Begin("delete_stored_completion",
             RemoteCall("delete_stored_completion", [response_id |-> response_id]))

delete_stored_completion_reply(reply) ==
    /\ Finish("delete_stored_completion", reply,
           IF ~reply.ok THEN StatusToError(reply) ELSE Ok(Unit))

stream_chat_call(request) ==
    LET proto_request == to_proto_request(DefaultModel, request) IN
    /\ proto_request.ok
    /\ Begin("stream_chat", RemoteCall("get_completion_chunk", proto_request.val))

\* the remote call is answered: a status ends the operation, a response
\* stream is returned to the caller, mapped, with no item read yet
stream_chat_reply(reply) ==
    /\ op = "stream_chat" /\ pc = "rpc"
    /\ replies' = Append(replies, reply)
    /\ result' = IF ~reply.ok THEN StatusToError(reply) ELSE Ok([stream |-> "mapped"])
    /\ pc' = IF ~reply.ok THEN "done" ELSE "streaming"
    /\ UNCHANGED <<op, request_id, poll_interval, timeout, now, start, wake_at, calls,
                   checks, sleeps, stream, yielded>>
    /\ UNCHANGED <<convVars, reqVars>>

\* an item read twice from the stream: a mutant of stream_map
stream_map_twice(items, item) ==
    LET mapped == IF ~item.ok THEN StatusToError(item) ELSE proto_chunk_to_chunk(item.val) IN
    items \o <<mapped, mapped>>

\* response.map(|result| result.map_err(Into::into).and_then(proto_chunk_to_chunk)):
\* the item the remote stream gives is converted and handed over
stream_map(items, item) ==
    Append(items, IF ~item.ok THEN StatusToError(item) ELSE proto_chunk_to_chunk(item.val))

\* the consumer polls the returned stream once: the remote stream gives its
\* next item, or ends
stream_chat_poll_next(next) ==
    /\ op = "stream_chat" /\ pc = "streaming"
    /\ IF next.some
       THEN /\ Len(stream) < MaxChunks
            /\ stream' = Append(stream, next.val)
            /\ yielded' = stream_map(yielded, next.val)
            /\ UNCHANGED pc
       ELSE /\ pc' = "done"
            /\ UNCHANGED <<stream, yielded>>
    /\ UNCHANGED <<op, request_id, poll_interval, timeout, now, start, wake_at, calls,
                   replies, checks, sleeps, result>>
    /\ UNCHANGED <<convVars, reqVars>>

\* the models a server may list: one with every field set, one with
\* modality numbers that are no known modality
WireModels(prices) ==
    { [ name |-> "grok-3", aliases |-> <<"grok-3-latest">>, version |-> "1.0",
        input_modalities |-> <<1, 2>>, output_modalities |-> <<1>>,
        max_prompt_length |-> 8192, system_fingerprint |-> "fp_1" ] @@ prices,
      [ name |-> "", aliases |-> <<>>, version |-> "",
        input_modalities |-> <<0, 7>>, output_modalities |-> <<>>,
        max_prompt_length |-> 0, system_fingerprint |-> "" ] @@ prices }

\* the model lists a server may answer: none, one model, two models
WireModelLists(models) ==
    {[models |-> <<>>]} \cup {[models |-> <<m>>] : m \in models}
                        \cup {[models |-> <<m, n>>] : m, n \in models}

\* GrokClient::list_models
list_models ==
    \/ /\ Begin("list_models", RemoteCall("list_language_models", Unit))
    \/ \E reply \in RpcReplies(WireModelLists(WireModels(
                [ prompt_text_token_price |-> 300, prompt_image_token_price |-> 0,
                  cached_prompt_token_price |-> 75, completion_text_token_price |-> 1500,
                  search_price |-> 25 ]))) :
            /\ Finish("list_models", reply,
                   IF ~reply.ok THEN StatusToError(reply)
                   ELSE Ok(MapSeq(LanguageModel_from, reply.val.models)))

\* GrokClient::get_model
get_model ==
    \/ \E name \in {"grok-3", ""} :
            /\ Begin("get_model", RemoteCall("get_language_model", [name |-> name]))
    \/ \E reply \in RpcReplies(WireModels(
                [ prompt_text_token_price |-> 300, prompt_image_token_price |-> 0,
                  cached_prompt_token_price |-> 75, completion_text_token_price |-> 1500,
                  search_price |-> 25 ])) :
            /\ Finish("get_model", reply,
                   IF ~reply.ok THEN StatusToError(reply)
                   ELSE Ok(LanguageModel_from(reply.val)))

\* GrokClient::list_embedding_models
list_embedding_models ==
    \/ /\ Begin("list_embedding_models", RemoteCall("list_embedding_models", Unit))
    \/ \E reply \in RpcReplies(WireModelLists(WireModels(
                [prompt_text_token_price |-> 10, prompt_image_token_price |-> 20]))) :
            /\ Finish("list_embedding_models", reply,
                   IF ~reply.ok THEN StatusToError(reply)
                   ELSE Ok(MapSeq(EmbeddingModel_from, reply.val.models)))

\* GrokClient::get_embedding_model
get_embedding_model ==
    \/ \E name \in {"v1", ""} :
            /\ Begin("get_embedding_model",
                  RemoteCall("get_embedding_model", [name |-> name]))
    \/ \E reply \in RpcReplies(WireModels(
                [prompt_text_token_price |-> 10, prompt_image_token_price |-> 20])) :
            /\ Finish("get_embedding_model", reply,
                   IF ~reply.ok THEN StatusToError(reply)
                   ELSE Ok(EmbeddingModel_from(reply.val)))

\* GrokClient::list_image_generation_models
list_image_generation_models ==
    \/ /\ Begin("list_image_generation_models",
             RemoteCall("list_image_generation_models", Unit))
    \/ \E reply \in RpcReplies(WireModelLists(WireModels([image_price |-> 700]))) :
            /\ Finish("list_image_generation_models", reply,
                   IF ~reply.ok THEN StatusToError(reply)
                   ELSE Ok(MapSeq(ImageGenerationModel_from, reply.val.models)))

\* GrokClient::get_image_generation_model
get_image_generation_model ==
    \/ \E name \in {"grok-2-image", ""} :
            /\ Begin("get_image_generation_model",
                  RemoteCall("get_image_generation_model", [name |-> name]))
    \/ \E reply \in RpcReplies(WireModels([image_price |-> 700])) :
            /\ Finish("get_image_generation_model", reply,
                   IF ~reply.ok THEN StatusToError(reply)
                   ELSE Ok(ImageGenerationModel_from(reply.val)))

\* GrokClient::embed; the requests have no input, a text and an image, and
\* the responses are those of WireEmbedResponses with one embedding
embed ==
    \/ \E request \in
            { [ inputs |-> <<>>, model |-> "v1", encoding_format |-> "Float",
                user |-> None ],
              [ inputs |-> << [kind |-> "Text", text |-> "hello"],
                              [kind |-> "Image", url |-> "http://img",
                               detail |-> "High"] >>,
                model |-> "v1", encoding_format |-> "Base64", user |-> Some("u-1") ] } :
            /\ Begin("embed", RemoteCall("embed", embed_request_to_proto(request)))
    \/ \E reply \in RpcReplies({r \in WireEmbedResponses :
                                    /\ Len(r.embeddings) = 1
                                    /\ r.embeddings[1].index \in {3, -1}
                                    /\ Len(r.embeddings[1].embeddings) <= 1}) :
            /\ Finish("embed", reply,
                   IF ~reply.ok THEN StatusToError(reply)
                   ELSE proto_to_embed_response(reply.val))

\* GrokClient::tokenize
tokenize ==
    \/ \E request \in { [text |-> "", model |-> "grok-3", user |-> None],
                        [text |-> "hello", model |-> "grok-3", user |-> Some("u-1")] } :
            /\ Begin("tokenize",
                  RemoteCall("tokenize_text",
                             [ text |-> request.text,
                               model |-> request.model,
                               user |-> IF request.user.some THEN request.user.val
                                        ELSE "" ]))
    \/ \E reply \in RpcReplies(
                { [tokens |-> <<>>, model |-> "grok-3"],
                  [ tokens |-> << [ token_id |-> 15339, string_token |-> "hel",
                                    token_bytes |-> <<104, 101, 108>> ],
                                  [ token_id |-> 0, string_token |-> "",
                                    token_bytes |-> <<>> ] >>,
                    model |-> "grok-3" ] }) :
            /\ Finish("tokenize", reply,
                   IF ~reply.ok THEN StatusToError(reply)
                   ELSE LET Token_from(t) ==
                                [ token_id |-> t.token_id,
                                  string_token |-> t.string_token,
                                  token_bytes |-> t.token_bytes ] IN
                        Ok([ tokens |-> MapSeq(Token_from, reply.val.tokens),
                             model |-> reply.val.model ]))

\* GrokClient::get_api_key_info
get_api_key_info ==
    \/ /\ Begin("get_api_key_info", RemoteCall("get_api_key_info", Unit))
    \/ \E reply \in RpcReplies(
                { [ redacted_api_key |-> "xai-...abc", user_id |-> "user-1",
                    name |-> "key", create_time |-> create_time,
                    modify_time |-> modify_time, modified_by |-> "user-2",
                    team_id |-> "team-1", acls |-> <<"api-key:endpoint:*">>,
                    api_key_id |-> "key-1", api_key_blocked |-> blocked,
                    team_blocked |-> FALSE, disabled |-> ~blocked ] :
                  create_time \in {None, Some([seconds |-> 1700, nanos |-> 5])},
                  modify_time \in {None, Some([seconds |-> -1, nanos |-> 0])},
                  blocked \in BOOLEAN }) :
            /\ Finish("get_api_key_info", reply,
                   IF ~reply.ok THEN StatusToError(reply)
                   ELSE Ok(ApiKeyInfo_from(reply.val)))

\* the SampleRequests callers pass: SampleRequest::new with one prompt, and
\* one with every field set
SampleRequests ==
    { [ prompts |-> <<"Once">>, model |-> "grok-3", n |-> None, max_tokens |-> None,
        seed |-> None, stop |-> <<>>, temperature |-> None, top_p |-> None,
        frequency_penalty |-> None, presence_penalty |-> None, logprobs |-> FALSE,
        top_logprobs |-> None, user |-> None ],
      [ prompts |-> <<"a", "b">>, model |-> "grok-3", n |-> Some(2),
        max_tokens |-> Some(-1), seed |-> Some(7), stop |-> <<"END">>,
        temperature |-> Some(Num(MaxMagnitude)), top_p |-> Some(NaN),
        frequency_penalty |-> Some(Num(5)), presence_penalty |-> Some(Num(-5)),
        logprobs |-> TRUE, top_logprobs |-> Some(3), user |-> Some("u-1") ] }

\* the proto::SampleTextRequest that sample_text and sample_text_streaming
\* build: every field as given, no clamping, a missing user as ""
SampleTextRequest(request) ==
    [ prompt |-> request.prompts,
      model |-> request.model,
      n |-> request.n,
      max_tokens |-> request.max_tokens,
      seed |-> request.seed,
      stop |-> request.stop,
      temperature |-> request.temperature,
      top_p |-> request.top_p,
      frequency_penalty |-> request.frequency_penalty,
      logprobs |-> request.logprobs,
      presence_penalty |-> request.presence_penalty,
      top_logprobs |-> request.top_logprobs,
      user |-> IF request.user.some THEN request.user.val ELSE "" ]

\* the proto::SampleTextResponses a server may send
WireSampleResponses ==
    { [id |-> "smp_1", choices |-> <<>>, model |-> "grok-3", usage |-> None],
      [ id |-> "smp_2",
        choices |-> << [index |-> 0, text |-> " upon a time", finish_reason |-> 3],
                       [index |-> 1, text |-> "", finish_reason |-> 0],
                       [index |-> -1, text |-> "x", finish_reason |-> 9] >>,
        model |-> "grok-3",
        usage |-> Some([prompt_tokens |-> 1, completion_tokens |-> 3,
                        total_tokens |-> -4]) ],
      [ id |-> "smp_3",
        choices |-> << [index |-> 0, text |-> "a", finish_reason |-> 1],
                       [index |-> 1, text |-> "b", finish_reason |-> 2],
                       [index |-> 2, text |-> "c", finish_reason |-> 4],
                       [index |-> 3, text |-> "d", finish_reason |-> 5] >>,
        model |-> "grok-3",
        usage |-> Some([prompt_tokens |-> 1, completion_tokens |-> 4,
                        total_tokens |-> 5]) ] }

\* GrokClient::sample_text
sample_text ==
    \/ \E request \in SampleRequests :
            /\ Begin("sample_text", RemoteCall("sample_text", SampleTextRequest(request)))
    \/ \E reply \in RpcReplies(WireSampleResponses) :
            /\ Finish("sample_text", reply,
                   IF ~reply.ok THEN StatusToError(reply)
                   ELSE Ok(SampleResponse_from(reply.val)))

\* GrokClient::sample_text_streaming: the call, its reply (a status ends the
\* operation, a response stream is returned mapped, with no item read yet),
\* and one poll of the returned stream, whose item is
\* result.map_err(Into::into).map(Into::into)
sample_text_streaming ==
    \/ \E request \in SampleRequests :
            /\ Begin("sample_text_streaming",
                  RemoteCall("sample_text_streaming", SampleTextRequest(request)))
    \/ \E reply \in RpcReplies({[stream |-> "open"]}) :
        /\ op = "sample_text_streaming" /\ pc = "rpc"
        /\ replies' = Append(replies, reply)
        /\ result' = IF ~reply.ok THEN StatusToError(reply) ELSE Ok([stream |-> "mapped"])
        /\ pc' = IF ~reply.ok THEN "done" ELSE "streaming"
        /\ UNCHANGED <<op, request_id, poll_interval, timeout, now, start, wake_at,
                       calls, checks, sleeps, stream, yielded>>
        /\ UNCHANGED <<convVars, reqVars>>
    \/ \E next \in OptionOf(RpcReplies(WireSampleResponses)) :
        /\ op = "sample_text_streaming" /\ pc = "streaming"
        /\ IF next.some
           THEN /\ Len(stream) < MaxChunks
                /\ stream' = Append(stream, next.val)
                /\ yielded' = Append(yielded,
                                     IF ~next.val.ok THEN StatusToError(next.val)
                                     ELSE Ok(SampleResponse_from(next.val.val)))
                /\ UNCHANGED pc
           ELSE /\ pc' = "done"
                /\ UNCHANGED <<stream, yielded>>
        /\ UNCHANGED <<op, request_id, poll_interval, timeout, now, start, wake_at,
                       calls, replies, checks, sleeps, result>>
        /\ UNCHANGED <<convVars, reqVars>>

\* GrokClient::generate_image: a source image is sent with DetailAuto
generate_image ==
    \/ \E request \in
            { [ prompt |-> "a cat", image_url |-> None, model |-> "grok-2-image",
                n |-> None, user |-> None, format |-> "Url" ],
              [ prompt |-> "a dog", image_url |-> Some("http://img"),
                model |-> "grok-2-image", n |-> Some(2), user |-> Some("u-1"),
                format |-> "Base64" ] } :
            /\ Begin("generate_image",
                  RemoteCall("generate_image",
                      [ prompt |-> request.prompt,
                        image |-> IF request.image_url.some
                                  THEN Some([ image_url |-> request.image_url.val,
                                              detail |-> "DetailAuto" ])
                                  ELSE None,
                        model |-> request.model,
                        n |-> request.n,
                        user |-> IF request.user.some THEN request.user.val ELSE "",
                        format |-> CASE request.format = "Base64" -> "ImgFormatBase64"
                                     [] request.format = "Url" -> "ImgFormatUrl" ]))
    \/ \E reply \in RpcReplies(
                { [images |-> <<>>, model |-> "grok-2-image"],
                  [ images |-> << [ image |-> Some([case |-> "Url", data |-> "http://out"]),
                                    up_sampled_prompt |-> "a fluffy cat",
                                    respect_moderation |-> TRUE ],
                                  [ image |-> Some([case |-> "Base64", data |-> "aGk="]),
                                    up_sampled_prompt |-> "",
                                    respect_moderation |-> FALSE ],
                                  [ image |-> None, up_sampled_prompt |-> "",
                                    respect_moderation |-> TRUE ] >>,
                    model |-> "grok-2-image" ] }) :
            /\ Finish("generate_image", reply,
                   IF ~reply.ok THEN StatusToError(reply)
                   ELSE Ok(ImageGenerationResponse_from(reply.val)))

\* GrokClient::search_documents: the source and the ranking metric are always
\* sent
search_documents ==
    \/ \E request \in
            { [ query |-> "rust", collection_ids |-> <<>>, limit |-> None,
                ranking_metric |-> "L2Distance", instructions |-> None ],
              [ query |-> "grpc", collection_ids |-> <<"col-1", "col-2">>,
                limit |-> Some(0), ranking_metric |-> "CosineSimilarity",
                instructions |-> Some("be brief") ] } :
            /\ Begin("search_documents",
                  RemoteCall("search",
                      [ query |-> request.query,
                        source |-> Some([collection_ids |-> request.collection_ids]),
                        limit |-> request.limit,
                        ranking_metric |->
                            Some(CASE request.ranking_metric = "L2Distance" ->
                                        "L2Distance"
                                   [] request.ranking_metric = "CosineSimilarity" ->
                                        "CosineSimilarity"),
                        instructions |-> request.instructions ]))
    \/ \E reply \in RpcReplies(
                { [matches |-> <<>>],
                  [ matches |-> << [ file_id |-> "file-1", chunk_id |-> "chunk-1",
                                     chunk_content |-> "text", score |-> Num(9),
                                     collection_ids |-> <<"col-1">> ],
                                   [ file_id |-> "", chunk_id |-> "",
                                     chunk_content |-> "", score |-> NaN,
                                     collection_ids |-> <<>> ] >> ] }) :
            /\ Finish("search_documents", reply,
                   IF ~reply.ok THEN StatusToError(reply)
                   ELSE Ok(DocumentSearchResponse_from(reply.val)))

\* GrokClient::test_connection (client/config.rs): the wire request is built
\* directly, with the client's default model, and the answer is the content
\* of the first output's message
test_connection ==
    \/ /\ Begin("test_connection",
             RemoteCall("get_completion",
                 [ messages |-> << [ role |-> "RoleUser",
                                     content |-> << WireText(
                                         "Say 'Hello from gRPC!' in one sentence.") >> ] >>,
                   model |-> DefaultModel,
                   max_tokens |-> Some(50),
                   temperature |-> None, top_p |-> None, stop |-> <<>>, seed |-> None,
                   tools |-> <<>>, tool_choice |-> None, reasoning_effort |-> None,
                   search_parameters |-> None, response_format |-> None, user |-> "",
                   logprobs |-> FALSE, top_logprobs |-> None,
                   frequency_penalty |-> None, presence_penalty |-> None,
                   parallel_tool_calls |-> None, previous_response_id |-> None,
                   store_messages |-> FALSE, use_encrypted_content |-> FALSE,
                   max_turns |-> None, include |-> <<>> ]))
    \/ \E reply \in RpcReplies(Payloads) :
            /\ Finish("test_connection", reply,
                   IF ~reply.ok THEN StatusToError(reply)
                   ELSE IF reply.val.outputs # <<>> /\ reply.val.outputs[1].message.some
                   THEN Ok(reply.val.outputs[1].message.val.content)
                   ELSE Err(InvalidRequest("No content in response")))

\* wait_for_deferred is called: `let start = Instant::now()`
wait_for_deferred_call(id, interval, limit) ==
    /\ op = "none" /\ pc = "idle"
    /\ op' = "wait_for_deferred"
    /\ request_id' = id /\ poll_interval' = interval /\ timeout' = limit
    /\ start' = now
    /\ pc' = "loop"
    /\ UNCHANGED <<now, wake_at, calls, replies, checks, sleeps, result, stream, yielded>>
    /\ UNCHANGED <<convVars, reqVars>>

\* the top of the loop: the elapsed-time test, then the poll's remote call
wait_for_deferred_loop ==
    /\ op = "wait_for_deferred" /\ pc = "loop"
    /\ LET elapsed == now - start IN
       /\ checks' = Append(checks, elapsed)
       /\ IF TimedOut(elapsed, timeout)
          THEN /\ result' = Err(InvalidRequest("Deferred request timed out"))
               /\ pc' = "done"
               /\ UNCHANGED calls
          ELSE /\ calls' = Append(calls, RemoteCall("get_deferred_completion",
                                                    GetDeferredRequest(request_id)))
               /\ pc' = "rpc"
               /\ UNCHANGED result
    /\ UNCHANGED <<op, request_id, poll_interval, timeout, now, start, wake_at, replies,
                   sleeps, stream, yielded>>
    /\ UNCHANGED <<convVars, reqVars>>

\* the poll's reply arrives after `latency`: `match self.poll_deferred(..).await?`
wait_for_deferred_reply(reply, latency) ==
    /\ op = "wait_for_deferred" /\ pc = "rpc"
    /\ now' = now + latency
    /\ replies' = Append(replies, reply)
    /\ LET polled == poll_deferred_result(reply) IN
       IF ~polled.ok
       THEN /\ result' = polled
            /\ pc' = "done"
            /\ UNCHANGED <<wake_at, sleeps>>
       ELSE IF polled.val.some
       THEN /\ result' = Ok(polled.val.val)
            /\ pc' = "done"
            /\ UNCHANGED <<wake_at, sleeps>>
       ELSE /\ wake_at' = sleep_deadline(now', poll_interval)
            /\ sleeps' = sleeps + 1
            /\ pc' = "sleeping"
            /\ UNCHANGED result
    /\ UNCHANGED <<op, request_id, poll_interval, timeout, start, calls, checks, stream,
                   yielded>>
    /\ UNCHANGED <<convVars, reqVars>>

\* `sleep(poll_interval).await` completes, no earlier than its deadline
wait_for_deferred_wake(jitter) ==
    /\ op = "wait_for_deferred" /\ pc = "sleeping"
    /\ now' = wake_at + jitter
    /\ pc' = "loop"
    /\ UNCHANGED <<op, request_id, poll_interval, timeout, start, wake_at, calls,
                   replies, checks, sleeps, result, stream, yielded>>
    /\ UNCHANGED <<convVars, reqVars>>

OpInit ==
    /\ op = "none" /\ pc = "idle"
    /\ request_id = "" /\ poll_interval = 0 /\ timeout = 0
    /\ now = 0 /\ start = 0 /\ wake_at = 0
    /\ calls = <<>> /\ replies = <<>> /\ checks = <<>> /\ sleeps = 0
    /\ result = NoResult
    /\ stream = <<>> /\ yielded = <<>>

Init == OpInit /\ ConvIdle /\ ReqIdle

Next ==
    \/ \E request \in OpRequests : complete_chat_call(request)
    \/ \E reply \in RpcReplies(Payloads) : complete_chat_reply(reply)
    \/ \E request \in OpRequests : start_deferred_call(request)
    \/ \E reply \in RpcReplies({[request_id |-> id] : id \in RequestIds}) :
            start_deferred_reply(reply)
    \/ \E id \in RequestIds : poll_deferred_call(id)
    \/ \E reply \in RpcReplies(DeferredResponses) : poll_deferred_reply(reply)
    \/ \E id \in RequestIds : get_stored_completion_call(id)
    \/ \E reply \in RpcReplies(Payloads) : get_stored_completion_reply(reply)
    \/ \E id \in RequestIds : delete_stored_completion_call(id)
    \/ \E reply \in RpcReplies({Unit}) : delete_stored_completion_reply(reply)
    \/ \E request \in OpRequests : stream_chat_call(request)
    \/ \E reply \in RpcReplies({[stream |-> "open"]}) : stream_chat_reply(reply)
    \/ \E next \in OptionOf(RpcReplies(
                { [outputs |-> <<>>, usage |-> None, citations |-> <<>>],
                  [outputs |-> << [delta |-> None, finish_reason |-> 0,
                                   logprobs |-> None] >>,
                   usage |-> None, citations |-> <<>>],
                  [outputs |-> << [delta |-> Some([content |-> "tok",
                                                   reasoning_content |-> "",
                                                   tool_calls |-> <<>>]),
                                   finish_reason |-> 3, logprobs |-> None] >>,
                   usage |-> Some([prompt_tokens |-> 1, completion_tokens |-> 2,
                                   total_tokens |-> 3]),
                   citations |-> <<"http://c">>] })) :
            stream_chat_poll_next(next)
    \/ \E id \in RequestIds, interval \in 1 .. MaxInterval, limit \in 0 .. MaxTimeout :
            wait_for_deferred_call(id, interval, limit)
    \/ wait_for_deferred_loop
    \/ \E reply \in RpcReplies(DeferredResponses), latency \in 0 .. MaxLatency :
            wait_for_deferred_reply(reply, latency)
    \/ \E jitter \in 0 .. MaxJitter : wait_for_deferred_wake(jitter)
    \/ list_models
    \/ get_model
    \/ list_embedding_models
    \/ get_embedding_model
    \/ list_image_generation_models
    \/ get_image_generation_model
    \/ embed
    \/ tokenize
    \/ get_api_key_info
    \/ sample_text
    \/ sample_text_streaming
    \/ generate_image
    \/ search_documents
    \/ test_connection

\* the client operations, each followed from its call to its return
Spec == Init /\ [][Next]_vars

\* the same, with every enabled step eventually taken: each remote call is
\* answered, each sleep completes and the task is scheduled
FairSpec == Spec /\ WF_vars(Next)

----------------------------------------------------------------------------
(* One conversion of one wire value.                                       *)

Convert(name, input, output) ==
    /\ conv_fn = "none"
    /\ conv_fn' = name
    /\ conv_in' = input
    /\ conv_out' = output
    /\ UNCHANGED <<opVars, reqVars>>

ConvNext ==
    \/ \E proto \in WireResponses :
            Convert("proto_to_response", proto, proto_to_response(proto))
    \/ \E chunk \in WireChunks :
            Convert("proto_chunk_to_chunk", chunk, proto_chunk_to_chunk(chunk))
    \/ \E reason \in WireFinishCodes :
            Convert("parse_finish_reason_static", [reason |-> reason],
                    parse_finish_reason_static(reason))
    \/ \E response \in WireEmbedResponses :
            Convert("proto_to_embed_response", response,
                    proto_to_embed_response(response))
    \/ \E input_modalities, output_modalities \in
                {<<>>, <<1>>, <<1, 2>>, <<0>>, <<3, 7>>, <<-1, 2>>} :
            LET proto == [ name |-> "grok-3", aliases |-> <<"grok-3-latest">>,
                           version |-> "1.0",
                           input_modalities |-> input_modalities,
                           output_modalities |-> output_modalities,
                           prompt_text_token_price |-> 300,
                           prompt_image_token_price |-> 0,
                           cached_prompt_token_price |-> 75,
                           completion_text_token_price |-> 1500,
                           search_price |-> 25, max_prompt_length |-> 8192,
                           system_fingerprint |-> "fp_1" ] IN
            Convert("LanguageModel_from", proto, LanguageModel_from(proto))
    \/ \E api_key \in {"", "xai-key"}, net \in {"connected", "refused"} :
        \/ \E endpoint \in
                    { "https://api.x.ai", "https://eu.x.ai", "https://api.x.ai/a b",
                      "data:text/plain,x", "mailto:a@b.c", "", "not a url",
                      "api.x.ai", "https://", "https://api.x.ai:99999" },
              default_model \in {DefaultModel, "grok-3"}, seconds \in {60, 120} :
                LET config == [ endpoint |-> endpoint, api_key |-> api_key,
                                default_model |-> default_model, timeout |-> seconds ] IN
                Convert("GrokClient_new", [config |-> config, net |-> net],
                        GrokClient_new(config, net))
        \/ Convert("GrokClient_connect", [api_key |-> api_key, net |-> net],
                   GrokClient_connect(api_key, net))
        \/ \E channel \in [endpoint : {"https://api.x.ai", "https://eu.x.ai"},
                            timeout : {60, 120}] :
                Convert("with_channel", [channel |-> channel, api_key |-> api_key],
                        [result |-> Ok(with_channel(channel, api_key)), connects |-> 0])
    \/ \E var \in {Err("NotPresent"), Err("NotUnicode"), Ok(""), Ok("xai-key")},
          net \in {"connected", "refused"} :
            Convert("GrokClient_from_env", [var |-> var, net |-> net],
                    GrokClient_from_env(var, net))
    \/ \E tokens \in {0, 1, 100, I32Max - 1, I32Max, I32Max + 1, I32Max + 2,
                       U32Max - 1, U32Max} :
            LET request == with_max_tokens(user_message(ChatRequest_default,
                                                        TextContent("hello")), tokens) IN
            Convert("to_proto_request", request, to_proto_request(DefaultModel, request))
    \/ \E tc \in [ id : {"", "call_1"},
                    call_type : {"ClientSideTool", "WebSearchTool", "XSearchTool",
                                 "CodeExecutionTool", "CollectionsSearchTool", "McpTool",
                                 "Unknown"},
                    status : {"InProgress", "Completed", "Incomplete", "Failed"},
                    error_message : {None, Some("boom")},
                    function : [name : {"", "get_weather"},
                                arguments : {"{}", "not json"}] ] :
            Convert("ToolCall_to_proto", tc,
                    [ proto |-> ToolCall_to_proto(tc),
                      decoded |-> ToolCall_from_proto(ToolCall_to_proto(tc)) ])
    \/ \E error \in
            {[kind |-> "Transport"]}
                \cup {[kind |-> "RateLimit", retry_after_secs |-> secs] : secs \in {0, 30}}
                \cup {StatusError(code) : code \in
                        {"Ok", "Cancelled", "Unknown", "InvalidArgument",
                         "DeadlineExceeded", "NotFound", "AlreadyExists",
                         "PermissionDenied", "ResourceExhausted", "FailedPrecondition",
                         "Aborted", "OutOfRange", "Unimplemented", "Internal",
                         "Unavailable", "DataLoss", "Unauthenticated"}}
                \cup {[kind |-> kind, msg |-> msg] :
                        kind \in {"Auth", "InvalidRequest", "Config"},
                        msg \in {"", "API key is empty"}}
                \cup {[kind |-> "EnvVar", var_error |-> e] :
                        e \in {"NotPresent", "NotUnicode"}}
                \cup {[kind |-> "InvalidHeaderValue"]} :
            Convert("is_retryable", error, [retryable |-> is_retryable(error)])

\* the response assembler, applied to each wire value a server may send
SpecConv == Init /\ [][ConvNext]_vars

----------------------------------------------------------------------------
(* One ChatRequest built by a chain of builder calls.                      *)

\* a constructor returns the request
Construct(call, r) ==
    /\ req = NoRequest /\ built = <<>> /\ ~panicked
    /\ req' = r
    /\ built' = <<call>>
    /\ UNCHANGED <<panicked, wire>>
    /\ UNCHANGED <<opVars, convVars>>

\* a builder method takes the request by value and returns the changed one
Apply(call, r) ==
    /\ req # NoRequest /\ ~panicked /\ Len(built) < MaxBuilt
    /\ req' = r
    /\ built' = Append(built, call)
    /\ UNCHANGED <<panicked, wire>>
    /\ UNCHANGED <<opVars, convVars>>

\* a builder method panics: the request it took is dropped
Panic(call) ==
    /\ req # NoRequest /\ ~panicked /\ Len(built) < MaxBuilt
    /\ req' = NoRequest
    /\ built' = Append(built, call)
    /\ panicked' = TRUE
    /\ UNCHANGED wire
    /\ UNCHANGED <<opVars, convVars>>

\* the client converts the request, which it borrows, to its wire form
call_to_proto_request(default_model) ==
    /\ req # NoRequest /\ ~panicked /\ wire = None
    /\ wire' = Some([ default_model |-> default_model, request |-> req,
                      proto |-> to_proto_request(default_model, req) ])
    /\ UNCHANGED <<req, built, panicked>>
    /\ UNCHANGED <<opVars, convVars>>

IncludeOptions == {"WebSearchCallOutput", "InlineCitations"}

ReqNext ==
    \/ Construct([fn |-> "new"], ChatRequest_default)
    \/ \E messages \in MessageLists :
            Construct([fn |-> "from_messages"], from_messages(messages))
    \/ \E messages \in MessageLists, options \in CompletionOptionsInputs :
            Construct([fn |-> "from_messages_with_options"],
                      from_messages_with_options(messages, options))
    \/ \E content \in {TextContent("hello")} :
            Apply([fn |-> "user_message"], user_message(req, content))
    \/ \E text \in {"be brief"} : Apply([fn |-> "system_message"], system_message(req, text))
    \/ \E text \in {"a cat"} : Apply([fn |-> "assistant_message"], assistant_message(req, text))
    \/ \E id \in {"call_1"}, content \in {"{}"} :
            Apply([fn |-> "tool_result"], tool_result(req, id, content))
    \/ \E parts \in PartLists : Apply([fn |-> "user_multimodal"], user_multimodal(req, parts))
    \/ \E text \in {"describe"}, url \in {"http://img"} :
            Apply([fn |-> "user_with_image"], user_with_image(req, text, url))
    \/ \E text \in {"describe"}, file_id \in {"file-1"} :
            Apply([fn |-> "user_with_file"], user_with_file(req, text, file_id))
    \/ \E model \in {"grok-3"} : Apply([fn |-> "with_model"], with_model(req, model))
    \/ \E temp \in F32Inputs : Apply([fn |-> "with_temperature"], with_temperature(req, temp))
    \/ \E top_p \in F32Inputs : Apply([fn |-> "with_top_p"], with_top_p(req, top_p))
    \/ \E tokens \in {100, U32Max} :
            Apply([fn |-> "with_max_tokens"], with_max_tokens(req, tokens))
    \/ \E effort \in ReasoningEfforts :
            Apply([fn |-> "with_reasoning_effort"], with_reasoning_effort(req, effort))
    \/ Apply([fn |-> "with_web_search"], with_web_search(req))
    \/ Apply([fn |-> "with_json_output"], with_json_output(req))
    \/ \E schema \in {"{}"} : Apply([fn |-> "with_json_schema"], with_json_schema(req, schema))
    \/ \E schema \in {"{}"} :
            Apply([fn |-> "with_structured_output"], with_structured_output(req, schema))
    \/ \E seed \in {42} : Apply([fn |-> "with_seed"], with_seed(req, seed))
    \/ \E seq \in {"STOP"} : Apply([fn |-> "add_stop_sequence"], add_stop_sequence(req, seq))
    \/ \E tools \in ToolLists : Apply([fn |-> "with_tools"], with_tools(req, tools))
    \/ \E tool \in Tools : Apply([fn |-> "add_tool"], add_tool(req, tool))
    \/ \E choice \in ToolChoices :
            Apply([fn |-> "with_tool_choice"], with_tool_choice(req, choice))
    \/ \E user \in {"user-1"} : Apply([fn |-> "with_user"], with_user(req, user))
    \/ \E top_logprobs \in {None, Some(5)} :
            Apply([fn |-> "with_logprobs"], with_logprobs(req, top_logprobs))
    \/ \E penalty \in {Num(5)} :
            Apply([fn |-> "with_frequency_penalty"], with_frequency_penalty(req, penalty))
    \/ \E penalty \in {Num(3)} :
            Apply([fn |-> "with_presence_penalty"], with_presence_penalty(req, penalty))
    \/ \E enabled \in BOOLEAN :
            Apply([fn |-> "with_parallel_tool_calls"], with_parallel_tool_calls(req, enabled))
    \/ \E id \in {"resp_0"} :
            Apply([fn |-> "with_previous_response_id"], with_previous_response_id(req, id))
    \/ \E store \in BOOLEAN :
            Apply([fn |-> "with_store_messages"], with_store_messages(req, store))
    \/ \E use \in BOOLEAN :
            Apply([fn |-> "with_use_encrypted_content"], with_use_encrypted_content(req, use))
    \/ \E max_turns \in {I32Min, -1, 0, 1, 3, I32Max} :
            IF max_turns_ok(max_turns)
            THEN Apply([fn |-> "with_max_turns", max_turns |-> max_turns],
                       with_max_turns(req, max_turns))
            ELSE Panic([fn |-> "with_max_turns", max_turns |-> max_turns])
    \/ \E option \in IncludeOptions :
            Apply([fn |-> "add_include_option"], add_include_option(req, option))
    \/ \E options \in {<<>>, <<"WebSearchCallOutput", "InlineCitations">>} :
            Apply([fn |-> "with_include_options"], with_include_options(req, options))
    \/ \E default_model \in {DefaultModel, "custom-model", ""} :
            call_to_proto_request(default_model)

\* the request builder: a constructor, then builder calls, and a conversion
SpecReq == Init /\ [][ReqNext]_vars

----------------------------------------------------------------------------
(* The deferred-completion poller: claims.                                 *)

Last(seq) == seq[Len(seq)]

TimedOutError == Err(InvalidRequest("Deferred request timed out"))
DoneNoResponseError ==
    Err(InvalidRequest("Deferred request marked as done but no response"))

Waiting == op = "wait_for_deferred"
Replied == Len(replies) > 0

\* what a reply of get_deferred_completion says, read off the wire status
StatusIs(reply, name) == reply.ok /\ DeferredStatus_try_from(reply.val.status) = Ok(name)
Unrecognized(reply) == reply.ok /\ ~DeferredStatus_try_from(reply.val.status).ok
DoneWithPayload(reply) == StatusIs(reply, "Done") /\ reply.val.response.some
DoneWithoutPayload(reply) == StatusIs(reply, "Done") /\ ~reply.val.response.some

\* every reply before the last one said Pending
PendingUntilLast == \A i \in 1 .. Len(replies) - 1 : StatusIs(replies[i], "Pending")

\* the wait ended on Pending replies followed by Done with a payload
EndedDoneWithPayload ==
    Waiting /\ Replied /\ DoneWithPayload(Last(replies)) /\ PendingUntilLast

\* whether a completion payload can be assembled into a response
Assemblable(payload) ==
    Len(payload.outputs) > 0 /\ payload.outputs[1].message.some

\* C1 as stated: Pending replies followed by Done with a payload make
\* wait_for_deferred return Ok with the response converted from that payload,
\* with no poll afterwards.
C1_DoneReturnsOk ==
    EndedDoneWithPayload =>
        LET converted == proto_to_response(Last(replies).val.response.val) IN
        /\ pc = "done"
        /\ converted.ok
        /\ result = Ok(converted.val)
        /\ Len(calls) = Len(replies)

\* C1 amended: Pending replies followed by Done with a payload make
\* wait_for_deferred return what assembling that payload gives, with no poll
\* afterwards: Ok with the converted response when the payload has a first
\* output with a message, and otherwise the assembler's InvalidRequest error.
C1_DoneReturnsConversion ==
    EndedDoneWithPayload =>
        LET payload == Last(replies).val.response.val IN
        /\ pc = "done"
        /\ result = proto_to_response(payload)
        /\ result.ok = Assemblable(payload)
        /\ Len(calls) = Len(replies)

\* C1 witness: a wait that returned Ok after at least one Pending reply
C1_Witness ==
    /\ EndedDoneWithPayload /\ Len(replies) >= 2
    /\ pc = "done" /\ result.ok

\* the elapsed time is read before each poll and a poll is issued only when
\* it does not exceed the timeout; a reading above the timeout ends the wait
\* with the "timed out" error and no poll; a wait whose replies all said
\* Pending can only end with that error
C2_Safety ==
    Waiting =>
        /\ Len(calls) <= Len(checks)
        /\ \A i \in 1 .. Len(calls) : checks[i] <= timeout
        /\ \A i \in 1 .. Len(checks) :
                checks[i] > timeout =>
                    /\ i = Len(checks)
                    /\ pc = "done"
                    /\ result = TimedOutError
                    /\ Len(calls) = i - 1
                    /\ Len(replies) = i - 1
        /\ (pc = "done" /\ \A i \in 1 .. Len(replies) : StatusIs(replies[i], "Pending"))
                => (result = TimedOutError /\ Last(checks) > timeout)

\* C2: no poll is issued in an iteration whose elapsed reading exceeds the
\* timeout, such a reading ends the wait with the "timed out" error and no
\* further poll, and a wait whose replies keep saying Pending ends with that
\* error.
C2_TimesOut ==
    /\ []C2_Safety
    /\ Waiting ~> /\ Waiting
                  /\ \/ \E i \in 1 .. Len(replies) : ~StatusIs(replies[i], "Pending")
                     \/ pc = "done" /\ result = TimedOutError

\* C2 witness: a wait that timed out after several Pending replies
C2_Witness ==
    /\ Waiting /\ pc = "done" /\ result = TimedOutError
    /\ Len(replies) >= 2 /\ Len(calls) = Len(replies)

\* a reply that says Expired, the invalid status or an unrecognized status
TerminalStatus(reply) ==
    \/ StatusIs(reply, "Expired")
    \/ StatusIs(reply, "InvalidDeferredStatus")
    \/ Unrecognized(reply)

\* C3: a poll answered Expired or with an unrecognized status ends the wait
\* at once with an InvalidRequest error: no sleep follows that reply and no
\* further poll is issued; when the first reply is such, no sleep occurs.
C3_TerminalStatus ==
    (Waiting /\ Replied /\ TerminalStatus(Last(replies))) =>
        /\ pc = "done"
        /\ result = Err(InvalidRequest(IF StatusIs(Last(replies), "Expired")
                                       THEN "Deferred request has expired"
                                       ELSE "Invalid deferred status"))
        /\ Len(calls) = Len(replies)
        /\ sleeps = Len(replies) - 1

\* C3 witness: the first poll answered Expired, and an unrecognized status
\* after a Pending reply
C3_Witness ==
    /\ Waiting /\ pc = "done" /\ Replied
    /\ \/ Len(replies) = 1 /\ StatusIs(replies[1], "Expired") /\ sleeps = 0
       \/ Len(replies) = 2 /\ Unrecognized(replies[2])

\* C4: Done without a payload makes poll_deferred return the InvalidRequest
\* error "Deferred request marked as done but no response", and
\* wait_for_deferred returns that error without polling again.
C4_DoneWithoutPayload ==
    /\ (op = "poll_deferred" /\ Replied /\ DoneWithoutPayload(replies[1])) =>
            /\ pc = "done"
            /\ result = DoneNoResponseError
            /\ Len(calls) = 1
    /\ (Waiting /\ Replied /\ DoneWithoutPayload(Last(replies))) =>
            /\ pc = "done"
            /\ result = DoneNoResponseError
            /\ Len(calls) = Len(replies)

\* C4 witness: a wait ended by Done without a payload after a Pending reply
C4_Witness ==
    /\ Waiting /\ Len(replies) >= 2 /\ DoneWithoutPayload(Last(replies))
    /\ result = DoneNoResponseError

\* a wait issues at most floor(timeout / poll_interval) + 1 polls
C5_PollBound == Waiting => Len(calls) <= (timeout \div poll_interval) + 1

\* C5: with each poll answered and a poll interval above zero,
\* wait_for_deferred returns a payload or an error, after at most
\* floor(timeout / poll_interval) + 1 polls.
C5_Terminates ==
    /\ []C5_PollBound
    /\ Waiting ~> (Waiting /\ pc = "done" /\ result # NoResult)

\* C5 witness: a wait that returned after exactly the bound's number of polls
C5_Witness ==
    /\ Waiting /\ pc = "done"
    /\ Len(calls) = (timeout \div poll_interval) + 1 /\ Len(calls) >= 3

NonPolling ==
    {"complete_chat", "start_deferred", "poll_deferred", "get_stored_completion",
     "delete_stored_completion", "stream_chat", "list_models", "get_model",
     "list_embedding_models", "get_embedding_model", "list_image_generation_models",
     "get_image_generation_model", "embed", "tokenize", "get_api_key_info",
     "sample_text", "sample_text_streaming", "generate_image", "search_documents",
     "test_connection"}

\* C6: a remote call that fails with a status ends the operation with that
\* error as its result and no further remote call, a poll inside
\* wait_for_deferred included; a non-polling operation issues exactly one
\* remote call.
C6_NoRetry ==
    /\ op \in NonPolling => Len(calls) = 1
    /\ (Replied /\ ~Last(replies).ok) =>
            /\ pc = "done"
            /\ result = Err(StatusError(Last(replies).err))
            /\ Len(calls) = Len(replies)
    /\ pc = "done" => Len(calls) = Len(replies)

\* C6 witness: a poll inside a wait failed with a status after a Pending reply
C6_Witness ==
    /\ Waiting /\ pc = "done" /\ Len(replies) >= 2
    /\ ~Last(replies).ok /\ result = Err(StatusError("Unavailable"))

----------------------------------------------------------------------------
(* The response assembler: claims.                                         *)

NoOutputsError == Err(InvalidRequest("Response has no outputs"))
NoMessageError == Err(InvalidRequest("Output has no message"))

Assembled == conv_fn = "proto_to_response"

\* C7: assembling a response fails with "Response has no outputs" exactly
\* when the outputs list is empty and with "Output has no message" exactly
\* when it is not empty and its first output has no message; in every other
\* case it succeeds, whatever else is absent.
C7_AssemblyErrors ==
    Assembled =>
        LET outputs == conv_in.outputs
            empty == Len(outputs) = 0
            headless == Len(outputs) > 0 /\ ~outputs[1].message.some IN
        /\ (conv_out = NoOutputsError) <=> empty
        /\ (conv_out = NoMessageError) <=> headless
        /\ conv_out.ok <=> (~empty /\ ~headless)
        /\ conv_out.ok => conv_out.val.content = outputs[1].message.val.content

\* C7 witness: a response with a first output with a message and no usage,
\* no logprobs, no timestamp and a tool call without payload is assembled
C7_Witness ==
    /\ Assembled /\ conv_out.ok
    /\ ~conv_in.usage.some /\ ~conv_in.created.some
    /\ ~conv_in.outputs[1].logprobs.some
    /\ \E i \in 1 .. Len(conv_in.outputs[1].message.val.tool_calls) :
            ~conv_in.outputs[1].message.val.tool_calls[i].tool.some

\* the finish-reason table as the specification gives it
FinishReasonTable(code) ==
    IF code = 3 THEN [tag |-> "Stop"]
    ELSE IF code = 1 \/ code = 2 THEN [tag |-> "Length"]
    ELSE IF code = 4 THEN [tag |-> "ToolCalls"]
    ELSE IF code = 5 THEN [tag |-> "Error", msg |-> "Time limit reached"]
    ELSE [tag |-> "Unknown"]

\* C8: decoding a finish-reason code returns a value for every code: Stop for
\* 3, Length for 1 and 2, ToolCalls for 4, Error("Time limit reached") for 5
\* and Unknown for every other code, zero, negative and 6 and above included.
C8_FinishReasonDecoding ==
    conv_fn = "parse_finish_reason_static" =>
        LET code == conv_in.reason IN
        /\ conv_out = FinishReasonTable(code)
        /\ conv_out.tag \in {"Stop", "Length", "ToolCalls", "Error", "Unknown"}
        /\ (code <= 0 \/ code >= 6) => conv_out = [tag |-> "Unknown"]

\* C8 witness: the code of the maximum-context stop decoded to Length
C8_Witness ==
    /\ conv_fn = "parse_finish_reason_static"
    /\ conv_in.reason = 2 /\ conv_out = [tag |-> "Length"]

\* C9: a converted chunk has no finish reason exactly when the wire chunk has
\* no outputs or its first output's code is zero, and otherwise has the table
\* decoding of that code.
C9_ChunkFinishReason ==
    conv_fn = "proto_chunk_to_chunk" =>
        LET outputs == conv_in.outputs
            streaming == Len(outputs) = 0 \/ outputs[1].finish_reason = 0 IN
        /\ conv_out.ok
        /\ ~conv_out.val.finish_reason.some <=> streaming
        /\ ~streaming =>
                conv_out.val.finish_reason = Some(FinishReasonTable(outputs[1].finish_reason))

\* C9 witness: a chunk whose first output carries a non-zero code outside the
\* table reports Some(Unknown)
C9_Witness ==
    /\ conv_fn = "proto_chunk_to_chunk"
    /\ Len(conv_in.outputs) > 0 /\ conv_in.outputs[1].finish_reason > 5
    /\ conv_out.val.finish_reason = Some([tag |-> "Unknown"])

----------------------------------------------------------------------------
(* The request builder: claims.                                            *)

InRange(value, lo, hi) == ~value.some \/ f32_within(value.val, Num(lo), Num(hi))

\* C10: every request built by the public constructors and builder calls has
\* a temperature that is unset or within [0.0, 2.0] and a top_p that is unset
\* or within [0.0, 1.0], and so has the wire request made of it.
C10_SamplingInRange ==
    req # NoRequest =>
        LET sent == to_proto_request(DefaultModel, req) IN
        /\ InRange(req.temperature, TemperatureMin, TemperatureMax)
        /\ InRange(req.top_p, TopPMin, TopPMax)
        /\ sent.ok
        /\ InRange(sent.val.temperature, TemperatureMin, TemperatureMax)
        /\ InRange(sent.val.top_p, TopPMin, TopPMax)

\* C11: with_max_turns(n) panics for every n below 1, leaving no request and
\* no remote call, and for every n of 1 or more returns a request whose
\* max_turns() is n; every request has max_turns unset or at least 1.
C11_MaxTurns ==
    /\ req # NoRequest => (~req.max_turns.some \/ req.max_turns.val >= 1)
    /\ panicked => (req = NoRequest /\ calls = <<>>)
    /\ (built # <<>> /\ Last(built).fn = "with_max_turns") =>
            LET n == Last(built).max_turns IN
            IF n < 1
            THEN panicked /\ req = NoRequest
            ELSE ~panicked /\ req # NoRequest /\ req.max_turns = Some(n)

\* C11 witness: with_max_turns(0) panicked on a request with a message
C11_Witness ==
    /\ panicked /\ Len(built) >= 2
    /\ Last(built).fn = "with_max_turns" /\ Last(built).max_turns = 0

----------------------------------------------------------------------------
(* Embedding decoding: claims.                                             *)

\* the bytes of a vector of floats, each float's sign byte last
RECURSIVE BytesOfFloats(_)
BytesOfFloats(vector) ==
    IF vector = <<>> THEN <<>>
    ELSE LET bits == vector[1].bits IN
         <<bits[4], bits[3], bits[2], bits[1]>> \o BytesOfFloats(Tail(vector))

\* the standard base64 text of a byte string, padded with '=' (64)
RECURSIVE Base64Text(_)
Base64Text(bytes) ==
    IF bytes = <<>> THEN <<>>
    ELSE IF Len(bytes) = 1
    THEN << bytes[1] \div 4, (bytes[1] % 4) * 16, 64, 64 >>
    ELSE IF Len(bytes) = 2
    THEN << bytes[1] \div 4, (bytes[1] % 4) * 16 + bytes[2] \div 16,
            (bytes[2] % 16) * 4, 64 >>
    ELSE << bytes[1] \div 4, (bytes[1] % 4) * 16 + bytes[2] \div 16,
            (bytes[2] % 16) * 4 + bytes[3] \div 64, bytes[3] % 64 >>
            \o Base64Text(SubSeq(bytes, 4, Len(bytes)))

Padding(str) == Cardinality({i \in 1 .. Len(str) : str[i] = 64})

\* the number of bytes a base64 text stands for
ByteLength(str) == (Len(str) \div 4) * 3 - Padding(str)

\* a text the standard alphabet with canonical padding accepts
IsBase64(str) ==
    LET body == Len(str) - Padding(str) IN
    /\ Len(str) % 4 = 0
    /\ Padding(str) <= 2
    /\ Len(str) = 0 => Padding(str) = 0
    /\ \A i \in 1 .. Len(str) : IF i <= body THEN str[i] \in 0 .. 63 ELSE str[i] = 64
    /\ Padding(str) = 1 => str[body] % 4 = 0
    /\ Padding(str) = 2 => str[body] % 16 = 0

\* the message decoding a wire embedding fails with, "" when it succeeds
EmbeddingError(emb) ==
    IF emb.embeddings = <<>> THEN "missing embedding vector"
    ELSE LET fv == emb.embeddings[1] IN
         IF fv.float_array # <<>> THEN ""
         ELSE IF fv.base64_array = <<>>
         THEN "embedding had neither float nor base64 array"
         ELSE IF ~IsBase64(fv.base64_array) THEN "invalid base64 embedding"
         ELSE IF ByteLength(fv.base64_array) % 4 # 0
         THEN "embedding byte length not divisible by 4"
         ELSE ""

\* the vector is the float array when there is one, and otherwise the floats
\* whose bytes, in little-endian order, the base64 text stands for
IsVectorOf(vector, emb) ==
    LET fv == emb.embeddings[1] IN
    IF fv.float_array # <<>> THEN vector = fv.float_array
    ELSE /\ Len(vector) * 4 = ByteLength(fv.base64_array)
         /\ Base64Text(BytesOfFloats(vector)) = fv.base64_array

\* C12: an embedding decodes to its first feature vector's float array when
\* that is not empty, otherwise to the little-endian floats of its base64
\* bytes, a quarter as many as the bytes; decoding fails with an
\* InvalidRequest error when the byte length is no multiple of 4, when
\* neither representation is there, or when the feature vector is missing.
C12_EmbeddingDecoding ==
    conv_fn = "proto_to_embed_response" =>
        LET embs == conv_in.embeddings
            failing == {i \in 1 .. Len(embs) : EmbeddingError(embs[i]) # ""} IN
        IF failing # {}
        THEN LET first == CHOOSE i \in failing : \A j \in failing : i <= j IN
             conv_out = Err(InvalidRequest(EmbeddingError(embs[first])))
        ELSE /\ conv_out.ok
             /\ Len(conv_out.val.embeddings) = Len(embs)
             /\ \A i \in 1 .. Len(embs) :
                    IsVectorOf(conv_out.val.embeddings[i].vector, embs[i])

\* C12 witness: a base64 text of 8 bytes decoded to the 2 floats 1.0 and -2.0
C12_Witness ==
    /\ conv_fn = "proto_to_embed_response" /\ conv_out.ok
    /\ Len(conv_in.embeddings) = 1
    /\ conv_in.embeddings[1].embeddings[1].float_array = <<>>
    /\ ByteLength(conv_in.embeddings[1].embeddings[1].base64_array) = 8
    /\ conv_out.val.embeddings[1].vector =
            << [bits |-> <<63, 128, 0, 0>>], [bits |-> <<192, 0, 0, 0>>] >>

----------------------------------------------------------------------------
(* The request adapter: claims.                                            *)

Sent == wire.some

\* C13: the wire model is the request's model when one was set and the
\* client's default model otherwise, so it is empty in that case only when
\* the default is; every other optional field the request leaves unset is
\* unset on the wire.
C13_DefaultModelOnly ==
    Sent =>
        LET request == wire.val.request
            default_model == wire.val.default_model
            sent == wire.val.proto IN
        /\ sent.ok
        /\ request.model.some => sent.val.model = request.model.val
        /\ ~request.model.some => sent.val.model = default_model
        /\ (~request.model.some /\ default_model # "") => sent.val.model # ""
        /\ ~request.max_tokens.some => ~sent.val.max_tokens.some
        /\ ~request.temperature.some => ~sent.val.temperature.some
        /\ ~request.top_p.some => ~sent.val.top_p.some
        /\ ~request.seed.some => ~sent.val.seed.some
        /\ ~request.tools.some => sent.val.tools = <<>>
        /\ ~request.tool_choice.some => ~sent.val.tool_choice.some
        /\ ~request.reasoning_effort.some => ~sent.val.reasoning_effort.some
        /\ ~request.search.some => ~sent.val.search_parameters.some
        /\ ~request.response_format.some => ~sent.val.response_format.some
        /\ ~request.frequency_penalty.some => ~sent.val.frequency_penalty.some
        /\ ~request.presence_penalty.some => ~sent.val.presence_penalty.some
        /\ ~request.parallel_tool_calls.some => ~sent.val.parallel_tool_calls.some
        /\ ~request.previous_response_id.some => ~sent.val.previous_response_id.some
        /\ ~request.max_turns.some => ~sent.val.max_turns.some
        /\ ~request.top_logprobs.some => ~sent.val.top_logprobs.some
        /\ ~request.user.some => sent.val.user = ""

\* C13 witness: a request with a model set and nothing else, sent by a client
\* with another default model
C13_Witness ==
    /\ Sent /\ wire.val.request.model = Some("grok-3")
    /\ wire.val.default_model = "custom-model"
    /\ wire.val.proto.val.model = "grok-3"
    /\ ~wire.val.proto.val.max_tokens.some

\* the wire part carries the kind and the text, URL or file id of the part
SamePart(sent, part) ==
    /\ sent.content.some
    /\ sent.content.val.case = part.kind
    /\ part.kind = "Text" => sent.content.val.text = part.text
    /\ part.kind = "ImageUrl" => sent.content.val.image_url = part.url
    /\ part.kind = "File" => sent.content.val.file_id = part.file_id

\* C14: a User message built from a list of parts maps to a wire message
\* whose content has the same length and whose i-th entry is the wire part
\* of the kind and with the text, URL or file id of the i-th part; System,
\* Assistant and plain-text User messages map to exactly one text part.
C14_PartOrder ==
    Sent =>
        LET messages == wire.val.request.messages
            sent == wire.val.proto.val.messages IN
        /\ Len(sent) = Len(messages)
        /\ \A i \in 1 .. Len(messages) :
            LET message == messages[i] IN
            /\ (message.role = "User" /\ message.content.kind = "MultiModal") =>
                    /\ sent[i].role = "RoleUser"
                    /\ Len(sent[i].content) = Len(message.content.parts)
                    /\ \A j \in 1 .. Len(message.content.parts) :
                            SamePart(sent[i].content[j], message.content.parts[j])
            /\ (message.role = "User" /\ message.content.kind = "Text") =>
                    /\ sent[i].role = "RoleUser"
                    /\ Len(sent[i].content) = 1
                    /\ SamePart(sent[i].content[1], TextPart(message.content.text))
            /\ message.role \in {"System", "Assistant"} =>
                    /\ sent[i].role = "Role" \o message.role
                    /\ Len(sent[i].content) = 1
                    /\ SamePart(sent[i].content[1], TextPart(message.text))

\* C14 witness: the parts Text, ImageUrl, File of a User message were sent
\* in that order
C14_Witness ==
    /\ Sent
    /\ \E i \in 1 .. Len(wire.val.request.messages) :
        /\ wire.val.request.messages[i].role = "User"
        /\ wire.val.request.messages[i].content.kind = "MultiModal"
        /\ Len(wire.val.request.messages[i].content.parts) = 3
        /\ wire.val.proto.val.messages[i].content[1].content.val.case = "Text"
        /\ wire.val.proto.val.messages[i].content[2].content.val.case = "ImageUrl"
        /\ wire.val.proto.val.messages[i].content[3].content.val.case = "File"

----------------------------------------------------------------------------
(* Tool calls: claims.                                                     *)

\* the kinds some wire tool-call type decodes to, Unknown aside
DecodableKinds ==
    {ToolCallKind_from_proto(type) : type \in {I32Min, I32Max} \cup (-1 .. MaxToolType)}
        \ {"Unknown"}

\* C15: each Tool variant (Function, WebSearch, XSearch, CodeExecution,
\* CollectionsSearch, Mcp, DocumentSearch) has its own ToolCallKind, other
\* than Unknown, that a wire tool call of some type decodes to, and a decoded
\* tool call has the function name and argument string of the wire one.
C15_KindMirrorsTools ==
    /\ Cardinality(DecodableKinds) >= Cardinality({tool.variant : tool \in Tools})
    /\ (Assembled /\ conv_out.ok) =>
            LET sent == SelectSeq(conv_in.outputs[1].message.val.tool_calls,
                                  LAMBDA tc : tc.tool.some)
                calls_out == conv_out.val.tool_calls IN
            /\ Len(calls_out) = Len(sent)
            /\ \A i \in 1 .. Len(sent) :
                    /\ calls_out[i].function.name = sent[i].tool.val.name
                    /\ calls_out[i].function.arguments = sent[i].tool.val.arguments

\* C16: decoding never fails on an unknown wire enum value and gives the
\* enum's Unknown sentinel for it: a finish reason outside 1..5, a tool-call
\* type outside 1..6, a tool-call status outside 0..3 and a modality outside
\* 1..3 each decode to Unknown, and no such value is dropped.
C16_UnknownSentinel ==
    /\ conv_fn = "parse_finish_reason_static" =>
            (conv_in.reason \notin 1 .. 5 => conv_out = [tag |-> "Unknown"])
    /\ Assembled =>
            /\ ~conv_out.ok => conv_out \in {NoOutputsError, NoMessageError}
            /\ conv_out.ok =>
                LET sent == SelectSeq(conv_in.outputs[1].message.val.tool_calls,
                                      LAMBDA tc : tc.tool.some)
                    calls_out == conv_out.val.tool_calls IN
                \A i \in 1 .. Len(sent) :
                    /\ sent[i].type \notin 1 .. 6 => calls_out[i].call_type = "Unknown"
                    /\ sent[i].status \notin 0 .. 3 => calls_out[i].status = "Unknown"
    /\ conv_fn = "LanguageModel_from" =>
            /\ Len(conv_out.input_modalities) = Len(conv_in.input_modalities)
            /\ \A i \in 1 .. Len(conv_in.input_modalities) :
                    conv_in.input_modalities[i] \notin 1 .. 3
                        => conv_out.input_modalities[i] = "Unknown"

----------------------------------------------------------------------------
(* Errors: claims.                                                         *)

\* C17: is_retryable is true exactly for a Transport error, a RateLimit error
\* and a Status error of code Unavailable, DeadlineExceeded or
\* ResourceExhausted, and false for every other Status code and for Auth,
\* InvalidRequest, Config, EnvVar and InvalidHeaderValue errors.
C17_Retryable ==
    conv_fn = "is_retryable" =>
        /\ conv_in.kind \in {"Transport", "RateLimit"} => conv_out.retryable
        /\ conv_in.kind = "Status" =>
                (conv_out.retryable <=>
                    conv_in.code \in {"Unavailable", "DeadlineExceeded", "ResourceExhausted"})
        /\ conv_in.kind \in {"Auth", "InvalidRequest", "Config", "EnvVar",
                             "InvalidHeaderValue"} => ~conv_out.retryable
        /\ conv_in.kind \in {"Transport", "RateLimit", "Status", "Auth", "InvalidRequest",
                             "Config", "EnvVar", "InvalidHeaderValue"}

\* C17 witness: a Status error of code ResourceExhausted was found retryable
C17_Witness ==
    /\ conv_fn = "is_retryable"
    /\ conv_in = StatusError("ResourceExhausted") /\ conv_out.retryable

----------------------------------------------------------------------------
(* Client construction: claims.                                            *)

Constructed == conv_fn \in {"GrokClient_new", "GrokClient_connect", "GrokClient_from_env",
                            "with_channel"}

EmptyKeyError == Err([kind |-> "Config", msg |-> "API key is empty"])

\* C18 as stated: new with an empty key returns the Config error "API key is
\* empty" with no connection attempted, from_env returns an error when the
\* variable is not set, and the client that any constructor (new, connect,
\* from_env, with_channel) returns has a non-empty API key.
C18_NoEmptyCredential ==
    /\ (conv_fn = "GrokClient_new" /\ conv_in.config.api_key = "") =>
            conv_out.result = EmptyKeyError /\ conv_out.connects = 0
    /\ (conv_fn = "GrokClient_from_env" /\ ~conv_in.var.ok) =>
            ~conv_out.result.ok /\ conv_out.connects = 0
    /\ (Constructed /\ conv_out.result.ok) =>
            conv_out.result.val.config.api_key # ""

\* C18, amended: new with an empty key returns the Config error "API key is
\* empty" with no connection attempted, from_env returns an error when the
\* variable is not set, and the client that new, connect or from_env returns
\* has a non-empty API key; with_channel always returns a client, whose API
\* key is the one given, empty or not.
C18_CheckedConstructors ==
    /\ (conv_fn = "GrokClient_new" /\ conv_in.config.api_key = "") =>
            conv_out.result = EmptyKeyError /\ conv_out.connects = 0
    /\ (conv_fn = "GrokClient_from_env" /\ ~conv_in.var.ok) =>
            ~conv_out.result.ok /\ conv_out.connects = 0
    /\ (conv_fn \in {"GrokClient_new", "GrokClient_connect", "GrokClient_from_env"}
            /\ conv_out.result.ok) =>
            conv_out.result.val.config.api_key # ""
    /\ conv_fn = "with_channel" =>
            /\ conv_out.result.ok
            /\ conv_out.result.val.config.api_key = conv_in.api_key

\* C18 witness: new, given an empty key, a valid endpoint and a reachable
\* server, returned the error without connecting
C18_Witness ==
    /\ conv_fn = "GrokClient_new"
    /\ conv_in.config.api_key = "" /\ conv_in.config.endpoint = "https://api.x.ai"
    /\ conv_in.net = "connected"
    /\ conv_out.result = EmptyKeyError /\ conv_out.connects = 0

----------------------------------------------------------------------------
(* The message sequence: claims.                                           *)

MessageAdders ==
    {"user_message", "system_message", "assistant_message", "tool_result",
     "user_multimodal", "user_with_image", "user_with_file"}

\* C19: a message-adding builder call (user_message, system_message,
\* assistant_message, tool_result, user_multimodal, user_with_image,
\* user_with_file) returns the request with exactly one message more, after
\* the earlier ones, which stay as they were and where they were; every other
\* setter returns it with the same messages; the conversion to the wire form
\* leaves the request as it was.
C19_AppendOnly ==
    [][ /\ (req # NoRequest /\ req' # NoRequest /\ built' # built) =>
            LET fn == built'[Len(built')].fn
                before == req.messages
                after == req'.messages IN
            /\ Len(built') = Len(built) + 1
            /\ fn \in MessageAdders =>
                    /\ Len(after) = Len(before) + 1
                    /\ SubSeq(after, 1, Len(before)) = before
            /\ fn \notin MessageAdders => after = before
        /\ wire' # wire => (req' = req /\ built' = built /\ wire'.val.request = req)
      ]_vars

\* C19 witness: tool_result was called on a request made of two messages,
\* which are still its first two, and the request was converted
C19_Witness ==
    /\ Len(built) = 2 /\ built[1].fn = "from_messages" /\ built[2].fn = "tool_result"
    /\ req # NoRequest /\ Len(req.messages) = 3
    /\ SubSeq(req.messages, 1, 2) = <<SystemMsg("be brief"), UserMsg(TextContent("hello"))>>
    /\ req.messages[3] = ToolMsg("call_1", "{}")
    /\ wire.some /\ wire.val.request = req

----------------------------------------------------------------------------
(* Optional strings: claims.                                               *)

\* C20: in an assembled response reasoning_content and system_fingerprint
\* are None exactly when the wire string is empty and Some of the wire string
\* otherwise; in an assembled chunk reasoning_delta is None exactly when
\* there is no output, the first output has no delta, or the delta's
\* reasoning string is empty, and Some of that string otherwise; none of the
\* three is ever Some("").
C20_EmptyIsAbsent ==
    /\ (Assembled /\ conv_out.ok) =>
            LET message == conv_in.outputs[1].message.val
                response == conv_out.val IN
            /\ response.reasoning_content.some <=> message.reasoning_content # ""
            /\ response.reasoning_content.some =>
                    response.reasoning_content.val = message.reasoning_content
            /\ response.system_fingerprint.some <=> conv_in.system_fingerprint # ""
            /\ response.system_fingerprint.some =>
                    response.system_fingerprint.val = conv_in.system_fingerprint
            /\ response.reasoning_content # Some("")
            /\ response.system_fingerprint # Some("")
    /\ conv_fn = "proto_chunk_to_chunk" =>
            LET outputs == conv_in.outputs
                absent == \/ Len(outputs) = 0
                          \/ ~outputs[1].delta.some
                          \/ outputs[1].delta.val.reasoning_content = ""
                reasoning_delta == conv_out.val.reasoning_delta IN
            /\ conv_out.ok
            /\ ~reasoning_delta.some <=> absent
            /\ reasoning_delta.some =>
                    reasoning_delta.val = outputs[1].delta.val.reasoning_content
            /\ reasoning_delta # Some("")

\* C20 witness: a response whose wire reasoning string is empty and whose
\* fingerprint is not was assembled with no reasoning and that fingerprint
C20_Witness ==
    /\ Assembled /\ conv_out.ok
    /\ conv_in.outputs[1].message.val.reasoning_content = ""
    /\ conv_in.system_fingerprint = "fp_1"
    /\ conv_out.val.reasoning_content = None
    /\ conv_out.val.system_fingerprint = Some("fp_1")

----------------------------------------------------------------------------
(* The request adapter as a total mapping: claims.                         *)

\* C21: to_proto_request returns Ok for every request, with one wire message
\* per message of the request, in the same order and with the role of its
\* tag (System, User, Assistant, Tool result), and the same request with the
\* same default model gives the same wire request.
C21_TotalMapping ==
    Sent =>
        LET request == wire.val.request
            sent == wire.val.proto IN
        /\ sent.ok
        /\ sent = to_proto_request(wire.val.default_model, request)
        /\ Len(sent.val.messages) = Len(request.messages)
        /\ \A i \in 1 .. Len(request.messages) :
                sent.val.messages[i].role =
                    CASE request.messages[i].role = "System" -> "RoleSystem"
                      [] request.messages[i].role = "User" -> "RoleUser"
                      [] request.messages[i].role = "Assistant" -> "RoleAssistant"
                      [] request.messages[i].role = "Tool" -> "RoleTool"

----------------------------------------------------------------------------
(* The deferred-completion poller, step by step: claims.                   *)

\* the sleeps of the wait that have completed
CompletedSleeps == IF pc = "sleeping" THEN sleeps - 1 ELSE sleeps

\* C22: in one wait the polls are sequential: at most one status request is
\* outstanding, a request after the first is issued only when the one before
\* it was answered Pending and one sleep of poll_interval per answered poll
\* has completed, no sleep precedes the first poll, and no sleep follows a
\* poll answered Done, Expired, with an unrecognized status or an error.
C22_Sequential ==
    Waiting =>
        /\ Len(calls) - Len(replies) \in {0, 1}
        /\ Len(calls) = Len(replies) + 1 <=> pc = "rpc"
        /\ \A i \in 1 .. Len(calls) - 1 : StatusIs(replies[i], "Pending")
        /\ sleeps = Cardinality({i \in 1 .. Len(replies) : StatusIs(replies[i], "Pending")})
        /\ Len(calls) = 0 => sleeps = 0
        /\ Len(calls) > 0 => Len(calls) <= CompletedSleeps + 1
        /\ pc = "rpc" => Len(calls) = CompletedSleeps + 1
        /\ pc = "sleeping" => wake_at = now + poll_interval
        /\ (pc = "loop" /\ sleeps > 0) => now >= wake_at
        /\ (Replied /\ ~StatusIs(Last(replies), "Pending")) =>
                pc = "done" /\ sleeps = Len(replies) - 1

\* C22 witness: the third status request is outstanding, after two Pending
\* replies and two completed sleeps
C22_Witness ==
    /\ Waiting /\ pc = "rpc"
    /\ Len(calls) = 3 /\ Len(replies) = 2 /\ sleeps = 2

\* C23: every status request of a wait carries the identifier the caller
\* passed, the same in every poll, and no step of the wait, a poll's reply
\* included, changes that identifier.
C23_SameIdentifier ==
    /\ [](Waiting =>
            \A i \in 1 .. Len(calls) :
                /\ calls[i].method = "get_deferred_completion"
                /\ calls[i].request = [request_id |-> request_id]
                /\ calls[i].request.request_id \in RequestIds)
    /\ [][(Waiting /\ op' = "wait_for_deferred") =>
            /\ request_id' = request_id
            /\ SubSeq(calls', 1, Len(calls)) = calls]_vars

\* C23 witness: two status requests of one wait, both with the identifier
\* "req-2" of the caller, the first one answered
C23_Witness ==
    /\ Waiting /\ request_id = "req-2"
    /\ Len(calls) = 2 /\ Len(replies) >= 1
    /\ calls[1].request.request_id = "req-2" /\ calls[2].request.request_id = "req-2"

----------------------------------------------------------------------------
(* The chunk stream: claims.                                               *)

Streaming == op = "stream_chat"

\* C24: the items handed to the consumer of stream_chat mirror the items of
\* the remote stream one for one and in order: the i-th is Err of the status
\* for a wire error and Ok of the converted chunk otherwise, none is dropped,
\* repeated or read ahead; a wire chunk always converts, and one with no
\* outputs, no delta or no usage gives an empty delta, no finish reason and
\* zero usage.
C24_StreamMirrors ==
    /\ [](Streaming =>
            /\ Len(yielded) = Len(stream)
            /\ \A i \in 1 .. Len(stream) :
                    IF ~stream[i].ok
                    THEN yielded[i] = Err(StatusError(stream[i].err))
                    ELSE LET chunk == stream[i].val IN
                         /\ yielded[i].ok
                         /\ yielded[i] = proto_chunk_to_chunk(chunk)
                         /\ (chunk.outputs = <<>> \/ ~chunk.outputs[1].delta.some) =>
                                yielded[i].val.delta = ""
                         /\ (chunk.outputs = <<>> \/ chunk.outputs[1].finish_reason = 0) =>
                                yielded[i].val.finish_reason = None
                         /\ ~chunk.usage.some =>
                                yielded[i].val.cumulative_usage =
                                    [prompt_tokens |-> 0, completion_tokens |-> 0,
                                     total_tokens |-> 0])
    /\ [][(Streaming /\ yielded' # yielded) =>
            /\ Len(yielded') = Len(yielded) + 1
            /\ SubSeq(yielded', 1, Len(yielded)) = yielded
            /\ Len(stream') = Len(stream) + 1]_vars

\* C24 witness: a stream of a chunk without outputs, a status and a full
\* chunk, handed over as an empty chunk, an error and a chunk that stops
C24_Witness ==
    /\ Streaming /\ Len(stream) = 3 /\ Len(yielded) = 3
    /\ stream[1].ok /\ stream[1].val.outputs = <<>> /\ yielded[1].ok
    /\ yielded[1].val.delta = ""
    /\ ~stream[2].ok /\ ~yielded[2].ok
    /\ stream[3].ok /\ yielded[3].ok /\ yielded[3].val.delta = "tok"
    /\ yielded[3].val.finish_reason = Some([tag |-> "Stop"])

----------------------------------------------------------------------------
(* Tools on the wire: claims.                                              *)

\* C25: every tool of a request is sent with its wire tool field set, to the
\* oneof case of its variant and of no other variant (Function, WebSearch,
\* XSearch, CodeExecution, CollectionsSearch, Mcp, DocumentSearch), and the
\* wire tools are as many as the request's tools, in the same order.
C25_OneCasePerVariant ==
    Sent =>
        LET tools == IF wire.val.request.tools.some THEN wire.val.request.tools.val
                     ELSE <<>>
            sent == wire.val.proto.val.tools IN
        /\ Len(sent) = Len(tools)
        /\ \A i \in 1 .. Len(tools) :
                /\ sent[i].tool.some
                /\ sent[i].tool.val.case = tools[i].variant
                /\ sent[i].tool.val.config = tools[i]
                /\ sent[i].tool.val.case \in
                        {"Function", "WebSearch", "XSearch", "CodeExecution",
                         "CollectionsSearch", "Mcp", "DocumentSearch"}
        /\ \A i, j \in 1 .. Len(tools) :
                tools[i].variant # tools[j].variant
                    => sent[i].tool.val.case # sent[j].tool.val.case
        /\ \A one, other \in Tools :
                one.variant # other.variant
                    => Tool_to_proto(one).tool.val.case # Tool_to_proto(other).tool.val.case

\* C25 witness: the tools Function and WebSearch, set by with_tools, were
\* sent in that order; a DocumentSearch tool was sent in its own case
C25_Witness ==
    /\ Sent
    /\ LET sent == wire.val.proto.val.tools IN
       \/ /\ Len(sent) = 2
          /\ sent[1].tool.val.case = "Function" /\ sent[2].tool.val.case = "WebSearch"
          /\ wire.val.request.tools.val[1].variant = "Function"
       \/ /\ Len(sent) = 1 /\ sent[1].tool.val.case = "DocumentSearch"

\* C26: a tool call of any kind, Unknown included, any status, with or
\* without an error message and with any id, name and argument string, is
\* encoded by to_proto to a wire tool call that from_proto decodes to Some of
\* a tool call with the same id, kind, status, error message, function name
\* and arguments.
C26_ToolCallRoundTrip ==
    conv_fn = "ToolCall_to_proto" =>
        /\ conv_out.proto.tool.some
        /\ conv_out.decoded.some
        /\ conv_out.decoded.val.id = conv_in.id
        /\ conv_out.decoded.val.call_type = conv_in.call_type
        /\ conv_out.decoded.val.status = conv_in.status
        /\ conv_out.decoded.val.error_message = conv_in.error_message
        /\ conv_out.decoded.val.function.name = conv_in.function.name
        /\ conv_out.decoded.val.function.arguments = conv_in.function.arguments
        /\ conv_out.decoded = Some(conv_in)

\* C26 witness: a failed tool call of unknown kind with an error message was
\* encoded with the wire type 0 and decoded to itself
C26_Witness ==
    /\ conv_fn = "ToolCall_to_proto"
    /\ conv_in.call_type = "Unknown" /\ conv_in.status = "Failed"
    /\ conv_in.error_message = Some("boom")
    /\ conv_out.proto.type = 0
    /\ conv_out.decoded = Some(conv_in)

----------------------------------------------------------------------------
(* The client-side deadline: claims.                                       *)

\* the elapsed time at which a finished wait returned
ReturnedAt == now - start

\* C27: the deadline of a wait is tested at the top of a loop iteration only
\* and strictly: an iteration polls exactly when the elapsed time it reads is
\* at most the timeout, the timeout itself included; what that poll's reply
\* gives is returned even when the reply arrives after the timeout; the
\* timeout error is produced at a loop top only, never during a poll or a
\* sleep; so a wait returns no later than the timeout plus the latency of one
\* poll plus one sleep of poll_interval (as long as that sleep really took).
C27_DeadlineAtLoopTop ==
    /\ [](Waiting =>
            /\ \A i \in 1 .. Len(checks) :
                    /\ checks[i] <= timeout => Len(calls) >= i
                    /\ checks[i] > timeout => Len(calls) < i
            /\ Len(calls) = Cardinality({i \in 1 .. Len(checks) : checks[i] <= timeout})
            /\ (pc = "done" /\ Replied /\ ~StatusIs(Last(replies), "Pending")) =>
                    LET polled == poll_deferred_result(Last(replies)) IN
                    /\ result = IF polled.ok THEN Ok(polled.val.val) ELSE polled
                    /\ result # TimedOutError
                    /\ Last(checks) <= timeout
                    /\ ReturnedAt <= timeout + MaxLatency
            /\ (pc = "done" /\ result = TimedOutError) =>
                    /\ ReturnedAt = Last(checks)
                    /\ Len(checks) >= 2
                    /\ checks[Len(checks) - 1] <= timeout
                    /\ ReturnedAt <= timeout + MaxLatency + poll_interval + MaxJitter)
    /\ [][(Waiting /\ result' = TimedOutError /\ result # TimedOutError) =>
            (pc = "loop" /\ now' = now /\ calls' = calls /\ replies' = replies)]_vars

\* C27 witness: an iteration read an elapsed time equal to the timeout and
\* polled, and the reply, which came after the timeout, was returned
C27_Witness ==
    /\ Waiting /\ pc = "done" /\ Replied
    /\ Last(checks) = timeout /\ timeout > 0
    /\ Len(calls) = Len(checks)
    /\ ReturnedAt > timeout
    /\ result.ok

----------------------------------------------------------------------------
(* Tool calls of responses and chunks: claims.                             *)

\* the wire tool calls that carry a payload, in their order
WithPayload(tcs) == SelectSeq(tcs, LAMBDA tc : tc.tool.some)

\* the decoded tool calls are those wire tool calls, one for one
SameCalls(decoded, tcs) ==
    /\ Len(decoded) = Len(tcs)
    /\ \A i \in 1 .. Len(tcs) :
            /\ decoded[i].id = tcs[i].id
            /\ decoded[i].error_message = tcs[i].error_message
            /\ decoded[i].function = [name |-> tcs[i].tool.val.name,
                                      arguments |-> tcs[i].tool.val.arguments]

\* C28: the tool calls of an assembled response, and of an assembled chunk,
\* are the wire tool calls that carry a payload, in the order of the wire; a
\* wire tool call without a payload is left out and causes no error.
C28_ToolCallSubsequence ==
    /\ (Assembled /\ Assemblable(conv_in)) =>
            /\ conv_out.ok
            /\ SameCalls(conv_out.val.tool_calls,
                         WithPayload(conv_in.outputs[1].message.val.tool_calls))
    /\ conv_fn = "proto_chunk_to_chunk" =>
            /\ conv_out.ok
            /\ SameCalls(conv_out.val.tool_calls,
                         IF Len(conv_in.outputs) > 0 /\ conv_in.outputs[1].delta.some
                         THEN WithPayload(conv_in.outputs[1].delta.val.tool_calls)
                         ELSE <<>>)

\* C28 witness: of three wire tool calls the second had no payload, and the
\* response holds the first and the third, in that order
C28_Witness ==
    /\ Assembled /\ conv_out.ok
    /\ Len(conv_in.outputs[1].message.val.tool_calls) = 3
    /\ Len(conv_out.val.tool_calls) = 2
    /\ conv_out.val.tool_calls[1].id = "call_4"
    /\ conv_out.val.tool_calls[2].id = "call_6"

----------------------------------------------------------------------------
(* Integer widths: claims.                                                 *)

\* a decoded counter is the wire counter when that is not negative, and the
\* wire counter plus 2^width, above i32::MAX, when it is
WrappedCounter(decoded, sent) ==
    /\ sent >= 0 => decoded = sent
    /\ sent < 0 => (decoded = sent + 2^WordBits /\ decoded > I32Max)
    /\ decoded \in 0 .. U32Max

\* the decoded usage is the wire usage, counter by counter, zeros when absent
WrappedUsage(decoded, sent) ==
    IF sent.some
    THEN /\ WrappedCounter(decoded.prompt_tokens, sent.val.prompt_tokens)
         /\ WrappedCounter(decoded.completion_tokens, sent.val.completion_tokens)
         /\ WrappedCounter(decoded.total_tokens, sent.val.total_tokens)
    ELSE decoded = [prompt_tokens |-> 0, completion_tokens |-> 0, total_tokens |-> 0]

\* C29: the wire max_tokens is the caller's max_tokens for every value up to
\* i32::MAX and that value minus 2^width, a negative number, above it; a
\* decoded usage counter is the wire counter when that is not negative and
\* the wire counter plus 2^width otherwise; neither conversion fails or
\* saturates.  (The width is WordBits here, 32 in the code.)
C29_IntegerWidths ==
    /\ conv_fn = "to_proto_request" =>
            LET tokens == conv_in.max_tokens.val
                sent == conv_out.val.max_tokens IN
            /\ conv_out.ok /\ sent.some
            /\ tokens <= I32Max => sent.val = tokens
            /\ tokens > I32Max => (sent.val = tokens - 2^WordBits /\ sent.val < 0)
            /\ sent.val \in I32Min .. I32Max
    /\ (Assembled /\ conv_out.ok) => WrappedUsage(conv_out.val.usage, conv_in.usage)
    /\ conv_fn = "proto_chunk_to_chunk" =>
            conv_out.ok /\ WrappedUsage(conv_out.val.cumulative_usage, conv_in.usage)

\* C29 witness: i32::MAX + 1 tokens were sent as i32::MIN; the wire counters
\* -1 and i32::MIN were decoded as u32::MAX and i32::MAX + 1
C29_Witness ==
    \/ /\ conv_fn = "to_proto_request"
       /\ conv_in.max_tokens = Some(I32Max + 1)
       /\ conv_out.val.max_tokens = Some(I32Min)
    \/ /\ Assembled /\ conv_out.ok /\ conv_in.usage.some
       /\ conv_in.usage.val.prompt_tokens = -1
       /\ conv_out.val.usage.prompt_tokens = U32Max
       /\ conv_out.val.usage.completion_tokens = I32Max + 1

----------------------------------------------------------------------------
(* Errors of the poller: claims.                                           *)

\* the operation ended with the error of a failed remote call
RemoteFailure == Replied /\ ~Last(replies).ok

\* C30: an error that poll_deferred or wait_for_deferred returns without the
\* remote call having failed (the timeout, Expired, an unrecognized status,
\* Done without a payload, Done with a payload without outputs or message)
\* is an InvalidRequest, not retryable and with no retry delay; an error they
\* return is retryable only when it is the status of a failed remote call.
C30_PollerErrors ==
    (op \in {"poll_deferred", "wait_for_deferred"} /\ pc = "done" /\ ~result.ok) =>
        /\ ~RemoteFailure =>
                /\ result.err.kind = "InvalidRequest"
                /\ result.err.msg \in
                        {"Deferred request timed out", "Deferred request has expired",
                         "Invalid deferred status",
                         "Deferred request marked as done but no response",
                         "Response has no outputs", "Output has no message"}
                /\ ~is_retryable(result.err)
                /\ retry_after(result.err) = None
        /\ RemoteFailure =>
                /\ result.err = StatusError(Last(replies).err)
                /\ retry_after(result.err) = None
        /\ is_retryable(result.err) =>
                (RemoteFailure /\ Last(replies).err = "Unavailable")

\* C30 witness: a wait that ended on Done with a payload without outputs,
\* with an InvalidRequest that is not retryable
C30_Witness ==
    /\ Waiting /\ pc = "done" /\ Replied
    /\ DoneWithPayload(Last(replies))
    /\ result = NoOutputsError
    /\ ~is_retryable(result.err) /\ retry_after(result.err) = None

====
